---------------------------- MODULE Spec2Model ----------------------------
(***************************************************************************)
(* Hybrid memory subsystem of the agent: HybridMemoryManager                *)
(* (src/agent/hybrid_memory.py) and ContradictionHandler                    *)
(* (src/agent/contradiction_handler.py), with the two external stores       *)
(* (mem0 vector store, Graphiti/Neo4j graph store) as state.                *)
(*                                                                         *)
(* Text is modelled at word level: a text is a sequence of words separated  *)
(* by single blanks.  The regular expressions of the source are unanchored  *)
(* and carry no word boundaries, so a literal may start inside a word; the  *)
(* character-level facts about the words of the model (which word ends      *)
(* with, starts with or contains which literal) are the tables below.       *)
(***************************************************************************)
EXTENDS Integers, Sequences, FiniteSets, TLC

(***************************************************************************)
(* Character-level facts about the vocabulary                               *)
(***************************************************************************)

\* str.lower() on a word: the words of the model that carry an upper-case letter.
UpperWords ==
    { <<"I", "i">>, <<"Tesla", "tesla">>, <<"Google", "google">>,
      <<"Indianapolis", "indianapolis">>, <<"Actually", "actually">>,
      <<"My", "my">>, <<"User", "user">>, <<"Works", "works">>,
      <<"Lives", "lives">>, <<"Is", "is">>, <<"No", "no">>,
      <<"I'm", "i'm">>, <<"Actually,", "actually,">> }

Lower(w) ==
    IF \E p \in UpperWords : p[1] = w
    THEN (CHOOSE p \in UpperWords : p[1] = w)[2]
    ELSE w

LowerText(text) == [i \in 1..Len(text) |-> Lower(text[i])]

\* <<w, l>>: the lower-case word w properly ends with / starts with / contains
\* the literal l (every word also ends with, starts with and contains itself).
SuffixPairs ==
    { <<"that", "at">>, <<"cannot", "not">>, <<"hi", "i">> }

PrefixPairs ==
    { <<"works", "work">>, <<"worked", "work">>, <<"lives", "live">>, <<"flipped", "flip">>,
      <<"engineer", "engine">>, <<"position", "posit">> }

InfixPairs ==
    SuffixPairs \cup PrefixPairs \cup
    { <<"another", "not">>, <<"coworker", "work">> }

EndsWith(w, l) == w = l \/ <<w, l>> \in SuffixPairs

StartsWith(w, l) == w = l \/ <<w, l>> \in PrefixPairs

Contains(w, l) == w = l \/ <<w, l>> \in InfixPairs

\* Words that are not purely alphabetic, with their leading alphabetic part
\* ([a-zA-Z]+ and \w+ stop at the apostrophe or the punctuation mark).
NonAlphaWords ==
    { <<"don't", "don">>, <<"doesn't", "doesn">>, <<"didn't", "didn">>,
      <<"i'm", "i">>, <<"I'm", "I">>, <<"that's", "that">>,
      <<"actually,", "actually">>, <<"Actually,", "Actually">> }

IsAlpha(w) == ~ \E p \in NonAlphaWords : p[1] = w

AlphaPrefix(w) ==
    IF IsAlpha(w) THEN w ELSE (CHOOSE p \in NonAlphaWords : p[1] = w)[2]

\* Words of at most two characters (len(match) > 2 in extract_topic_keywords).
ShortWords == { "a", "an", "i", "is", "as", "at", "in", "it", "we", "my", "do", "no", "I", "My" }

\* Words matching \b[A-Z][a-zA-Z]+\b : a capital followed by at least one letter.
ProperNouns == { w \in { p[1] : p \in UpperWords } : IsAlpha(w) /\ w # "I" }

(***************************************************************************)
(* Word-level substring test:  kw in text                                   *)
(***************************************************************************)

\* Python's `kw in text` for a keyword kw (a word sequence) and a text.
InText(kw, text) ==
    /\ Len(kw) >= 1
    /\ \E p \in 1..(Len(text) - Len(kw) + 1) :
          IF Len(kw) = 1
          THEN Contains(text[p], kw[1])
          ELSE /\ EndsWith(text[p], kw[1])
               /\ StartsWith(text[p + Len(kw) - 1], kw[Len(kw)])
               /\ \A j \in 2..(Len(kw) - 1) : text[p + j - 1] = kw[j]

\* The words of text from position i on (text[i:] after strip()).
Rest(text, i) == IF i > Len(text) THEN << >> ELSE SubSeq(text, i, Len(text))


Min(S) == CHOOSE x \in S : \A y \in S : x <= y

(***************************************************************************)
(* ContradictionHandler.detect_negation                                     *)
(***************************************************************************)

\* Python's None (and every other falsy result: the callers test `if negation:`).
None == << >>

\* One alternative of the cross product of the alternations of a pattern.
Lits2(A, B) == { a \o b : a \in A, b \in B }

Lits3(A, B, C) == { a \o b \o c : a \in A, b \in B, c \in C }

\* The ordered pattern list.  lits: the literal word sequences the pattern's
\* alternations spell; capture: whether the pattern ends in \s+(.+).
NEGATION_PATTERNS ==
    << [lits |-> { <<"do", "not">>, <<"don't">>, <<"does", "not">>, <<"doesn't">>,
                   <<"did", "not">>, <<"didn't">> },
        capture |-> TRUE],
       [lits |-> { <<"no", "longer">>, <<"not", "anymore">> }, capture |-> TRUE],
       [lits |-> { <<"never">>, <<"not">> }, capture |-> TRUE],
       [lits |-> { <<"i", "am", "not">>, <<"i'm", "not">>, <<"i'm", "no", "longer">> },
        capture |-> TRUE],
       [lits |-> Lits2({ <<"that's">>, <<"that", "is">> },
                       { <<"incorrect">>, <<"wrong">>, <<"not", "true">>,
                         <<"not", "correct">>, <<"not", "right">> }),
        capture |-> FALSE],
       [lits |-> { <<"actually">>, <<"actually,">>, <<"actually:">>,
                   <<"correction">>, <<"correction,">>, <<"correction:">> },
        capture |-> TRUE],
       [lits |-> { <<"flip">>, <<"flipped">>, <<"swapped">>, <<"switched">>,
                   <<"reversed">>, <<"backwards">> },
        capture |-> FALSE],
       [lits |-> { <<"the", "other", "way", "around">>, <<"vice", "versa">> },
        capture |-> FALSE],
       [lits |-> Lits3({ <<"my">>, <<"the">> },
                       { <<"role">>, <<"position">>, <<"job">>, <<"title">> },
                       { <<"at">>, <<"with">>, <<"for">> }),
        capture |-> TRUE],
       [lits |-> Lits3({ <<"i">>, <<"we">> }, { <<"work">>, <<"works">> },
                       { <<"at">>, <<"for">>, <<"with">> }),
        capture |-> TRUE] >>

\* The literal lit of a pattern matches the text with its first word at p.
\* A capturing pattern continues with \s+(.+): its literal ends a word and a
\* further word follows; a pattern without group may end inside a word.
MatchesAt(lit, capture, text, p) ==
    LET k == Len(lit) IN
    /\ p + k - 1 <= Len(text)
    /\ capture => p + k <= Len(text)
    /\ IF k = 1
       THEN IF capture THEN EndsWith(text[p], lit[1]) ELSE Contains(text[p], lit[1])
       ELSE /\ EndsWith(text[p], lit[1])
            /\ \A j \in 2..(k - 1) : text[p + j - 1] = lit[j]
            /\ IF capture THEN text[p + k - 1] = lit[k]
               ELSE StartsWith(text[p + k - 1], lit[k])

\* re.search(pattern, message_lower): the leftmost match, or no match.
\* group: match.group(1).strip() of a capturing pattern.
PatternSearch(pat, text) ==
    LET hits == { p \in 1..Len(text) :
                    \E lit \in pat.lits : MatchesAt(lit, pat.capture, text, p) }
    IN  IF hits = {} THEN [matched |-> FALSE, group |-> << >>]
        ELSE LET p == Min(hits)
                 lit == CHOOSE l \in pat.lits : MatchesAt(l, pat.capture, text, p)
             IN  [matched |-> TRUE,
                  group |-> IF pat.capture THEN Rest(text, p + Len(lit)) ELSE << >>]

\* What the loop returns at pattern i when it matches: group(1).strip() if
\* the pattern has a group (len(match.groups()) > 0), else message_lower.
PatternResult(i, message_lower) ==
    IF NEGATION_PATTERNS[i].capture
    THEN PatternSearch(NEGATION_PATTERNS[i], message_lower).group
    ELSE message_lower

RECURSIVE DetectFromLast(_, _)
RECURSIVE DetectFrom(_, _)

\* The loop, had it gone through every pattern and kept the last match.
DetectFromLast(message_lower, i) ==
    IF i > Len(NEGATION_PATTERNS) THEN None
    ELSE LET later == DetectFromLast(message_lower, i + 1)
         IN  IF later # None THEN later
             ELSE IF PatternSearch(NEGATION_PATTERNS[i], message_lower).matched
                  THEN PatternResult(i, message_lower)
                  ELSE None

\* `for pattern in self.NEGATION_PATTERNS:` from pattern i on: the loop
\* returns at the first pattern that matches, and None after the last.
DetectFrom(message_lower, i) ==
    IF i > Len(NEGATION_PATTERNS) THEN None
    ELSE IF PatternSearch(NEGATION_PATTERNS[i], message_lower).matched
         THEN PatternResult(i, message_lower)
         ELSE DetectFrom(message_lower, i + 1)

\* detect_negation: message_lower = message.lower().strip(), then the loop.
detect_negation(message) == DetectFrom(LowerText(message), 1)

(***************************************************************************)
(* ContradictionHandler.extract_topic_keywords                              *)
(***************************************************************************)

WORK_KEYWORDS ==
    << "work", "works", "working", "worked", "employed", "job", "position", "role" >>

LOCATION_KEYWORDS ==
    << "live", "lives", "living", "lived", "located", "reside", "from" >>

Range(f) == { f[i] : i \in DOMAIN f }

Prepositions == { "at", "for", "with" }

Gazetteer ==
    { "mirazon", "brainiacs", "corpx", "techcorp", "tesla", "microsoft",
      "google", "amazon", "apple" }

noise_words ==
    { "the", "and", "but", "for", "not", "this", "that", "with", "from", "have",
      "has", "is", "as", "a", "an" }

\* re.search(r'(?:work|works|working|role|position)\s+(?:at|for|with)\s+(\w+)'):
\* the set holding group(1) of the leftmost match, or the empty set.
CompanyAfterWork(text) ==
    LET hits == { p \in 1..(Len(text) - 2) :
                    /\ \E l \in { "work", "works", "working", "role", "position" } :
                          EndsWith(text[p], l)
                    /\ text[p + 1] \in Prepositions }
    IN  IF hits = {} THEN {} ELSE { << AlphaPrefix(text[Min(hits) + 2]) >> }

\* The last word of the run [a-zA-Z]+(?:\s+[a-zA-Z]+)* that starts at word p:
\* the run takes the alphabetic words and ends with the alphabetic part of the
\* first word that is not purely alphabetic.
RECURSIVE RunEnd(_, _)
RunEnd(text, p) ==
    IF p = Len(text) \/ ~ IsAlpha(text[p]) THEN p ELSE RunEnd(text, p + 1)

RunText(text, p, q) ==
    [i \in 1..(q - p + 1) |-> IF p + i - 1 = q THEN AlphaPrefix(text[q]) ELSE text[p + i - 1]]

\* re.findall(r'(?:at|for|with)\s+([a-zA-Z]+(?:\s+[a-zA-Z]+)*)', text) from
\* word i on: the captured runs, scanned left to right without overlap.
RECURSIVE PrepositionRuns(_, _)
PrepositionRuns(text, i) ==
    LET hits == { p \in i..(Len(text) - 1) :
                    \E l \in Prepositions : EndsWith(text[p], l) }
    IN  IF hits = {} THEN {}
        ELSE LET p == Min(hits)
                 q == RunEnd(text, p + 1)
             IN  { RunText(text, p + 1, q) } \cup PrepositionRuns(text, q + 1)

\* len(match) > 2 for a captured run.
LongerThanTwo(run) == Len(run) > 1 \/ run[1] \notin ShortWords

extract_topic_keywords(text) ==
    LET text_lower == LowerText(text)
        has(l) == InText(<<l>>, text_lower)
        work == IF \E k \in Range(WORK_KEYWORDS) : has(k)
                THEN { <<"work">>, <<"position">>, <<"role">>, <<"job">>,
                       <<"developer">>, <<"engineer">> }
                     \cup CompanyAfterWork(text_lower)
                ELSE {}
        runs == { r \in PrepositionRuns(text_lower, 1) : LongerThanTwo(r) }
        known == { << AlphaPrefix(text_lower[i]) >> : i \in
                     { j \in 1..Len(text_lower) : AlphaPrefix(text_lower[j]) \in Gazetteer } }
        topic == IF \E l \in { "role", "position", "title", "job" } : has(l)
                 THEN { <<"role">>, <<"position">> } ELSE {}
        location == IF \E k \in Range(LOCATION_KEYWORDS) : has(k)
                    THEN { <<"location">>, <<"live">> } ELSE {}
        proper_nouns == { << Lower(AlphaPrefix(text[i])) >> : i \in
                            { j \in 1..Len(text) : AlphaPrefix(text[j]) \in ProperNouns } }
        keywords == work \cup runs \cup known \cup topic \cup location \cup proper_nouns
    IN  { k \in keywords : ~ (Len(k) = 1 /\ k[1] \in noise_words) }

(***************************************************************************)
(* Messages and the context enrichment of HybridMemoryManager.add          *)
(***************************************************************************)

\* A message {role, content}; content is a text.
User(content) == [role |-> "user", content |-> content]

Assistant(content) == [role |-> "assistant", content |-> content]

\* The content of the last user message before position i of the batch, or
\* None (for j in range(i - 1, -1, -1): ... break).
PrevUserContent(messages, i) ==
    LET js == { j \in 1..(i - 1) : messages[j].role = "user" }
    IN  IF js = {} THEN None
        ELSE messages[CHOOSE j \in js : \A k \in js : k <= j].content

\* re.findall(r'(?:at|for|with)\s+([A-Z][a-zA-Z]+)', prev_context)[0], as a
\* set: the first capitalised word that follows a preposition.
CompanyMatches(prev_context) ==
    LET hits == { p \in 1..(Len(prev_context) - 1) :
                    /\ \E l \in Prepositions : EndsWith(prev_context[p], l)
                    /\ AlphaPrefix(prev_context[p + 1]) \in ProperNouns }
    IN  IF hits = {} THEN {} ELSE { AlphaPrefix(prev_context[Min(hits) + 1]) }

RolePhrases ==
    { <<"my", "role">>, <<"my", "position">>, <<"my", "job">>, <<"my", "title">>,
      <<"i", "work">>, <<"i", "am">>, <<"i'm">> }

\* The word positions where role_pattern matches: the phrase, \s+, then text.
RoleHits(lower) ==
    { p \in 1..Len(lower) : \E l \in RolePhrases : MatchesAt(l, TRUE, lower, p) }

\* re.sub(role_pattern, enhance_role, user_message, count=1): the matched
\* phrase (group 1) is followed by " at <company> is " and group 2, the text
\* after the optional "is"/"as".
SpliceCompany(user_message, company) ==
    LET lower == LowerText(user_message)
        p == Min(RoleHits(lower))
        l == CHOOSE x \in RolePhrases : MatchesAt(x, TRUE, lower, p)
        after == p + Len(l)
        skip == IF lower[after] \in { "is", "as" } /\ after < Len(lower)
                THEN after + 1 ELSE after
    IN  SubSeq(user_message, 1, after - 1) \o << "at", company, "is" >>
            \o Rest(user_message, skip)

\* The content sent to the vector store for the user message at position i.
EnhancedContent(messages, i, last_user_message) ==
    LET user_message == messages[i].content
        in_batch == PrevUserContent(messages, i)
        prev_context == IF in_batch # None THEN in_batch ELSE last_user_message
        companies == CompanyMatches(prev_context)
    IN  IF /\ detect_negation(user_message) # None
           /\ prev_context # None
           /\ companies # {}
           /\ ~ InText(<< Lower(CHOOSE c \in companies : TRUE) >>, LowerText(user_message))
           /\ RoleHits(LowerText(user_message)) # {}
        THEN SpliceCompany(user_message, CHOOSE c \in companies : TRUE)
        ELSE user_message

\* enhanced_messages: the batch with the corrections of the user rewritten.
enhanced_messages(messages, last_user_message) ==
    [i \in 1..Len(messages) |->
        IF messages[i].role = "user"
        THEN User(EnhancedContent(messages, i, last_user_message))
        ELSE messages[i]]

(***************************************************************************)
(* Bounds and inputs                                                        *)
(***************************************************************************)

\* The number of add calls of a behaviour that pass the guard of add.
MaxAdds == 2

\* The clock stops at MaxTime seconds.
MaxTime == 20

\* The grace window of invalidate_contradicting_facts, in seconds.
GraceSeconds == 10

\* The instants at which the clock is read: any two of them are less than the
\* grace window apart (0 or 9 seconds), or more (11 or 20 seconds).
Instants == { t \in { 0, GraceSeconds + 1, 2 * GraceSeconds } : t <= MaxTime }

USER_IDS == { "alice" }

\* The batches the orchestrator hands to add: the user's message and the reply.
Reply == << "ok" >>

WorksAtTesla == << "I", "work", "at", "Tesla", "as", "an", "engineer" >>

LeftTesla == << "I", "don't", "work", "at", "Tesla", "anymore" >>

LivesInIndianapolis == << "I", "live", "in", "Indianapolis" >>

WorksAtGoogle == << "I", "work", "at", "Google" >>

Batches ==
    { << User(WorksAtTesla), Assistant(Reply) >>,
      << User(LeftTesla), Assistant(Reply) >>,
      << User(LivesInIndianapolis), Assistant(Reply) >> }

Some(x) == << x >>

\* The user-authored contents of a batch, in order.
UserContents(messages) ==
    LET RECURSIVE From(_)
        From(i) == IF i > Len(messages) THEN << >>
                   ELSE IF messages[i].role = "user"
                        THEN << messages[i].content >> \o From(i + 1)
                        ELSE From(i + 1)
    IN  From(1)

(***************************************************************************)
(* The external stores                                                      *)
(***************************************************************************)

\* The fact the vector store's extraction (mem0.add, infer=True) derives from
\* a user-authored content.
Mem0Facts(content) ==
    IF content = WorksAtTesla
    THEN { << "Works", "at", "Tesla", "as", "an", "engineer" >> }
    ELSE IF content = LeftTesla
    THEN { << "No", "longer", "works", "at", "Tesla" >> }
    ELSE IF content = LivesInIndianapolis
    THEN { << "Lives", "in", "Indianapolis" >> }
    ELSE IF content = WorksAtGoogle
    THEN { << "Works", "at", "Google" >> }
    ELSE IF content = SpliceCompany(WorksAtGoogle, "Tesla")
    THEN { << "Works", "at", "Tesla", "is", "at", "Google" >> }
    ELSE IF content = SpliceCompany(WorksAtTesla, "Google")
    THEN { << "Works", "at", "Google", "is", "at", "Tesla", "as", "an", "engineer" >> }
    ELSE {}

\* The facts of the edge the graph store's extraction (add_episode) can derive
\* from a user-authored content: a correction is recorded as the end of the
\* old fact, in one wording or the other.
GraphitiFacts(content) ==
    IF content = WorksAtTesla
    THEN { << "User", "works", "at", "Tesla", "as", "an", "engineer" >> }
    ELSE IF content = LeftTesla
    THEN { << "User", "no", "longer", "works", "at", "Tesla" >>,
           << "User", "worked", "at", "Tesla" >> }
    ELSE IF content = LivesInIndianapolis
    THEN { << "User", "lives", "in", "Indianapolis" >> }
    ELSE IF content = WorksAtGoogle
    THEN { << "User", "works", "at", "Google" >> }
    ELSE {}

\* The sequences a ranked query can return from the records S: any choice of
\* at most limit of them, in any order.
Rankings(S, limit) ==
    LET n == IF Cardinality(S) < limit THEN Cardinality(S) ELSE limit
    IN  UNION { { r \in [1..k -> S] : \A i, j \in 1..k : i # j => r[i] # r[j] } :
                k \in 0..n }

\* The sequences a nearest-neighbour query (mem0.search, no threshold) can
\* return from the records S: the limit nearest of them, in any order.
TopRanked(S, limit) ==
    { r \in Rankings(S, limit) : Len(r) = Min({ limit, Cardinality(S) }) }

VARIABLES
    manager,    \* the fields of the HybridMemoryManager
    initPc,     \* "idle", or "building" while initialize awaits the indices
    vector,     \* the facts of the vector store (mem0)
    graph,      \* the edges of the graph store (Graphiti / Neo4j)
    now,        \* the clock, in seconds
    adds,       \* the add calls made so far, each with its position and locals
    search,     \* the search call in progress, if any
    closes,     \* the calls of close made on the manager and, by it, on the graph store
    turn,       \* the user turn the orchestrator is processing, if any
    probe       \* a direct call of a function of ContradictionHandler, if any

vars == << manager, initPc, vector, graph, now, adds, search, closes, turn, probe >>

IdleSearch ==
    [pc |-> "idle", user_id |-> "", initialized |-> FALSE, after |-> {},
     results |-> [vector_results |-> << >>, graph_results |-> << >>,
                  combined_context |-> << >>],
     context_parts |-> << >>, trace |-> << >>]

\* No turn is being processed.
IdleTurn ==
    [pc |-> "idle", path |-> "", user_input |-> << >>, memory_context |-> << >>,
     full_message |-> << >>, response |-> << >>, delivered |-> FALSE,
     awaiting |-> 0, tasks |-> << >>, entry |-> "none", memory |-> TRUE]

\* No function is called directly.
NoProbe == [pc |-> "none"]

\* The state after the construction of the manager and of the orchestrator.
Constructed ==
    /\ manager = [mem0 |-> FALSE, graphiti |-> FALSE, contradiction_handler |-> FALSE,
                  _initialized |-> FALSE, _last_user_message |-> None]
    /\ initPc = "idle"
    /\ vector = {}
    /\ graph = {}
    /\ now = 0
    /\ adds = << >>
    /\ search = IdleSearch
    /\ closes = [manager |-> 0, graphiti |-> 0]
    /\ turn = IdleTurn

Init ==
    /\ probe = NoProbe
    /\ Constructed

\* A call that has returned or raised hands its outcome to its caller before
\* anything else runs: a return is no suspension point of the event loop.
Returning ==
    \/ search.pc \in { "returned", "raised" }
    \/ \E k \in 1..Len(adds) : adds[k].pc \in { "returned", "raised" }

(***************************************************************************)
(* HybridMemoryManager.initialize                                           *)
(***************************************************************************)

\* initialize up to `await self.graphiti.build_indices_and_constraints()`.
\* failure: "none", or the constructor that raises.
InitializeWithin(failure) ==
    /\ ~ Returning
    /\ initPc = "idle"
    /\ IF manager._initialized
       THEN UNCHANGED << manager, initPc >>
       ELSE CASE failure = "mem0" -> UNCHANGED << manager, initPc >>
              [] failure = "graphiti" ->
                    /\ manager' = [manager EXCEPT !.mem0 = TRUE]
                    /\ UNCHANGED initPc
              [] OTHER ->
                    /\ manager' = [manager EXCEPT !.mem0 = TRUE, !.graphiti = TRUE]
                    /\ initPc' = "building"
    /\ UNCHANGED << vector, graph, now, adds, search, closes, probe >>

\* initialize is called by a caller that is no turn of the orchestrator.
InitializeCall(failure) ==
    InitializeWithin(failure) /\ UNCHANGED turn

\* build_indices_and_constraints returns or raises; the rest of initialize.
InitializeResumed(failed) ==
    /\ ~ Returning
    /\ initPc = "building"
    /\ initPc' = "idle"
    /\ manager' = IF failed THEN manager
                  ELSE [manager EXCEPT !.contradiction_handler = TRUE,
                                       !._initialized = TRUE]
    /\ UNCHANGED << vector, graph, now, adds, search, closes, probe >>

InitializeDone(failed) ==
    InitializeResumed(failed) /\ UNCHANGED turn

\* Time passes, up to the instant t.
Tick(t) ==
    /\ ~ Returning
    /\ t > now
    /\ now' = t
    /\ UNCHANGED << manager, initPc, vector, graph, adds, search, closes, turn, probe >>

(***************************************************************************)
(* HybridMemoryManager.close                                                *)
(***************************************************************************)

\* The number of calls of close of a behaviour.
MaxCloses == 2

\* close: `if self.graphiti: await self.graphiti.close()`; no field of the
\* manager changes.
Close ==
    /\ ~ Returning
    /\ closes.manager < MaxCloses
    /\ closes' = [manager |-> closes.manager + 1,
                  graphiti |-> IF manager.graphiti THEN closes.graphiti + 1
                               ELSE closes.graphiti]
    /\ UNCHANGED << manager, initPc, vector, graph, now, adds, search, turn, probe >>

(***************************************************************************)
(* HybridMemoryManager.search                                               *)
(***************************************************************************)

\* limit, as the orchestrator passes it to search.
SearchLimit == 3

\* One sub-step of a call on a store, whether it completed, and the record
\* (fact id, edge uuid) it was about, if it was about one.
StepOn(op, ok, target) == [op |-> op, ok |-> ok, target |-> target]

Step(op, ok) == StepOn(op, ok, 0)

\* mem.get('memory', mem.get('text', str(mem)))
MemText(mem) ==
    IF "memory" \in DOMAIN mem THEN mem.memory
    ELSE IF "text" \in DOMAIN mem THEN mem.text
    ELSE << "{...}" >>

\* The line without its prefix.
LineBare(text) == text

\* f"- {text}"
Line(text) == << "-" >> \o text

\* The test without the skip of lines 435-437: every edge is kept.
IsActiveUnfiltered(edge) == TRUE

\* The test that keeps an edge in the context: its invalid_at is None.
IsActive(edge) == edge.invalid_at = None

\* The parts of the context that come from the vector results, in their order.
VectorParts(vector_results) ==
    [i \in 1..Len(vector_results) |->
        [source |-> "vector", id |-> vector_results[i].id,
         line |-> Line(MemText(vector_results[i]))]]

\* The parts that come from the graph results: the active edges, in their order.
GraphParts(graph_results) ==
    LET active == SelectSeq(graph_results, IsActive)
    IN  [i \in 1..Len(active) |->
            [source |-> "graph", id |-> active[i].uuid, line |-> Line(active[i].fact)]]

\* context_parts with the two loops in the other order.
ContextPartsGraphFirst(vector_results, graph_results) ==
    GraphParts(graph_results) \o VectorParts(vector_results)

\* context_parts: the vector parts, then the graph parts.
ContextParts(vector_results, graph_results) ==
    VectorParts(vector_results) \o GraphParts(graph_results)

\* combined_context without the test `if context_parts:`.
CombinedContextAlways(context_parts) ==
    << << >>, << "[Previous", "Context]:" >> >>
        \o [i \in 1..Len(context_parts) |-> context_parts[i].line]

\* The lines of "\n[Previous Context]:\n" + "\n".join(context_parts); the
\* empty string has no line.
CombinedContext(context_parts) ==
    IF context_parts = << >> THEN << >>
    ELSE << << >>, << "[Previous", "Context]:" >> >>
            \o [i \in 1..Len(context_parts) |-> context_parts[i].line]

\* The guard, had it tested the vector store instead of the flag.
NoVectorStore == ~ manager.mem0

\* The guard of add and search: `if not self._initialized: raise RuntimeError`.
NotInitialized == ~ manager._initialized

\* The add calls that are over.
AddsOver == { k \in 1..Len(adds) : adds[k].pc = "done" }

\* search up to `await self.graphiti.search(...)`: the guard and the vector
\* query, which returns a ranking or raises. over: what the call's observer
\* notes of the add calls that were over when search was called.
SearchFrom(user_id, over) ==
    /\ ~ Returning
    /\ search.pc = "idle"
    /\ IF NotInitialized
       THEN search' = [IdleSearch EXCEPT !.pc = "raised", !.user_id = user_id]
       ELSE \/ search' = [IdleSearch EXCEPT !.pc = "returned", !.user_id = user_id,
                                            !.initialized = TRUE, !.after = over,
                                            !.trace = << Step("vector_search", FALSE) >>]
            \/ \E ranking \in TopRanked({ f \in vector : f.user_id = user_id }, SearchLimit) :
                  search' = [IdleSearch EXCEPT !.pc = "graph", !.user_id = user_id,
                                               !.initialized = TRUE, !.after = over,
                                               !.results.vector_results = ranking,
                                               !.trace = << Step("vector_search", TRUE) >>]
    /\ UNCHANGED << manager, initPc, vector, graph, now, adds, probe >>

SearchCall(user_id) == SearchFrom(user_id, {}) /\ UNCHANGED << closes, turn >>

\* The same call, observed together with the add calls that were over.
ObservedSearchCall(user_id) == SearchFrom(user_id, AddsOver) /\ UNCHANGED << closes, turn >>

\* The graph query returns a ranking or raises; the context is built and
\* search returns.
SearchGraphDone ==
    /\ ~ Returning
    /\ search.pc = "graph"
    /\ \/ search' = [search EXCEPT !.pc = "returned",
                                   !.trace = @ \o << Step("graph_search", FALSE) >>]
       \/ \E ranking \in Rankings(graph, SearchLimit) :
             LET parts == ContextParts(search.results.vector_results, ranking)
             IN  search' = [search EXCEPT
                               !.pc = "returned",
                               !.results.graph_results = ranking,
                               !.results.combined_context = CombinedContext(parts),
                               !.context_parts = parts,
                               !.trace = @ \o << Step("graph_search", TRUE) >>]
    /\ UNCHANGED << manager, initPc, vector, graph, now, adds, closes, turn, probe >>

\* The caller takes the result (or the error) of search.
SearchReturn ==
    /\ search.pc \in { "returned", "raised" }
    /\ search' = IdleSearch
    /\ UNCHANGED << manager, initPc, vector, graph, now, adds, closes, turn, probe >>

(***************************************************************************)
(* ContradictionHandler.invalidate_contradicting_facts: the per-edge tests  *)
(***************************************************************************)

\* num_results of the resolver's graph query, limit of the pre-cleanup query.
ResolverLimit == 20

PreCleanupLimit == 10

NegationMarkers ==
    { << "not" >>, << "no", "longer" >>, << "never" >>, << "does", "not" >>,
      << "do", "not" >> }

\* A datetime: the numerals of its date and time, counted in seconds, and its
\* tzinfo (None for a naive datetime, else the offset from UTC in seconds).
\* datetime.now() of a process whose local zone has the offset: naive, with
\* the numerals of the local time of the instant.
LocalNow(instant, offset) == [wall |-> instant + offset, tzinfo |-> None]

\* The aware datetime of the instant in the zone of the offset.
AwareAt(instant, offset) == [wall |-> instant + offset, tzinfo |-> Some(offset)]

\* dt.replace(tzinfo=None): the numerals are kept, the zone is dropped.
ReplaceTzinfoNone(dt) == [dt EXCEPT !.tzinfo = None]

\* (a - b).total_seconds() of two naive datetimes.
NaiveSeconds(a, b) == a.wall - b.wall

\* (reference_time - edge.created_at.replace(tzinfo=None)).total_seconds()
time_diff(created_at, reference_time) ==
    NaiveSeconds(reference_time, ReplaceTzinfoNone(created_at))

\* The age of an edge of the model, whose clock counts the seconds of one
\* zone: the process and the graph store both keep UTC.
TimeDiff(edge, reference_time) ==
    time_diff(AwareAt(edge.created_at, 0), LocalNow(reference_time, 0))

\* The edge loop without the grace test of lines 170-176.
RecentlyCreatedNever(edge, reference_time) == FALSE

\* `if time_diff < 10: continue`: the edge was created within the grace window.
RecentlyCreated(edge, reference_time) ==
    TimeDiff(edge, reference_time) < GraceSeconds

\* The keyword test, had it asked for every keyword.
KeywordMatchAll(keywords, fact_lower) ==
    \A keyword \in keywords : InText(keyword, fact_lower)

\* The loop `for keyword in keywords: if keyword in fact_lower`.
KeywordMatch(keywords, fact_lower) ==
    \E keyword \in keywords : InText(keyword, fact_lower)

\* any(neg in fact_lower for neg in ['not', 'no longer', ...])
HasNegationMarker(fact_lower) ==
    \E neg \in NegationMarkers : InText(neg, fact_lower)

\* The tests of the edge loop without the skip of lines 166-168.
ShouldInvalidateAgain(edge, keywords, reference_time) ==
    /\ ~ RecentlyCreated(edge, reference_time)
    /\ KeywordMatch(keywords, LowerText(edge.fact))
    /\ ~ HasNegationMarker(LowerText(edge.fact))

\* The edge of the result set is handed to _invalidate_edge.
ShouldInvalidate(edge, keywords, reference_time) ==
    /\ edge.invalid_at = None
    /\ ~ RecentlyCreated(edge, reference_time)
    /\ KeywordMatch(keywords, LowerText(edge.fact))
    /\ ~ HasNegationMarker(LowerText(edge.fact))

(***************************************************************************)
(* HybridMemoryManager.add                                                  *)
(***************************************************************************)

\* The facts of S in the order of their ids.
RECURSIVE SortedById(_)
SortedById(S) ==
    IF S = {} THEN << >>
    ELSE LET x == CHOOSE y \in S : \A z \in S : y.id <= z.id
         IN  << x >> \o SortedById(S \ { x })

\* The keywords of the pre-cleanup for the correction at position i: those
\* of the negated topic, then those of the previous user message of the batch.
CleanupKeywords(messages, i) ==
    LET negation == detect_negation(messages[i].content)
        prev == PrevUserContent(messages, i)
    IN  extract_topic_keywords(negation)
            \cup (IF prev = None THEN {} ELSE extract_topic_keywords(prev))

\* The test of the pre-cleanup, had it asked for one keyword only.
AnyKeywordIn(keywords, memory) ==
    \E keyword \in keywords : InText(LowerText(keyword), LowerText(memory))

\* all(keyword.lower() in memory_lower for keyword in keywords)
AllKeywordsIn(keywords, memory) ==
    \A keyword \in keywords : InText(LowerText(keyword), LowerText(memory))

\* The pre-cleanup loop from message i on; vs is the vector store so far.
\* oracle: what the store does (search_fails_at: the message at which
\* mem0.search raises, or 0; hidden: the ids beyond the limit of the query;
\* delete_fails: the ids whose delete raises).
RECURSIVE PreCleanup(_, _, _, _, _, _)
PreCleanup(messages, user_id, i, vs, trace, oracle) ==
    IF i > Len(messages) THEN [vector |-> vs, trace |-> trace, failed |-> FALSE]
    ELSE IF /\ messages[i].role = "user"
            /\ detect_negation(messages[i].content) # None
            /\ CleanupKeywords(messages, i) # {}
    THEN IF oracle.search_fails_at = i
         THEN [vector |-> vs, trace |-> trace \o << Step("vector_search", FALSE) >>,
               failed |-> TRUE]
         ELSE LET keywords == CleanupKeywords(messages, i)
                  related == { f \in vs : f.user_id = user_id /\ f.id \notin oracle.hidden }
                  matching == SortedById({ f \in related : AllKeywordsIn(keywords, f.memory) })
                  deleted == { f \in Range(matching) : f.id \notin oracle.delete_fails }
                  steps == [k \in 1..Len(matching) |->
                               StepOn("vector_delete", matching[k] \in deleted,
                                      matching[k].id)]
              IN  PreCleanup(messages, user_id, i + 1, vs \ deleted,
                             trace \o << Step("vector_search", TRUE) >> \o steps, oracle)
    ELSE PreCleanup(messages, user_id, i + 1, vs, trace, oracle)

\* The facts mem0.add can store for the (enriched) batch: one of those of
\* its user-authored contents.
VectorAddChoices(enhanced) ==
    { { m } : m \in UNION { Mem0Facts(c) : c \in Range(UserContents(enhanced)) } }

\* The facts of the edges add_episode can create for the batch: one of those
\* of its user-authored contents.
EpisodeChoices(messages) ==
    { { m } : m \in UNION { GraphitiFacts(c) : c \in Range(UserContents(messages)) } }

\* add without its `except`: the failure reaches the caller.
OnExceptionRaise(c) == [c EXCEPT !.pc = "raised"]

\* add, had it logged the failure and gone on with its next step.
OnExceptionGoOn(c) == c

\* `except Exception as e: ... return results`: add returns what it has.
OnException(c) == [c EXCEPT !.pc = "returned"]

NewAdd(messages, user_id) ==
    [pc |-> "raised", messages |-> messages, user_id |-> user_id,
     initialized |-> FALSE,
     results |-> [mem0 |-> None, graphiti |-> None, invalidated_facts |-> None],
     reference_time |-> 0, msg_index |-> 0, resolver_reference_time |-> 0,
     related_facts |-> << >>, edge_index |-> 0, invalidated_count |-> 0,
     enhanced |-> << >>, episode_body |-> << >>,
     trace |-> << >>]

\* role.capitalize()
Capitalize(role) ==
    IF role = "user" THEN "User" ELSE IF role = "assistant" THEN "Assistant" ELSE role

\* conversation_text: one line f"{role.capitalize()}: {content}" per message.
ConversationText(messages) ==
    [i \in 1..Len(messages) |-> << Capitalize(messages[i].role) >> \o messages[i].content]

\* The positions of the batch at which the pre-cleanup queries the store.
CleanupPositions(messages) ==
    { i \in 1..Len(messages) :
        /\ messages[i].role = "user"
        /\ detect_negation(messages[i].content) # None
        /\ CleanupKeywords(messages, i) # {} }

\* What the vector store can do during the pre-cleanup of the batch.
CleanupOracles(messages, user_id) ==
    LET ids == { f.id : f \in { g \in vector : g.user_id = user_id } }
    IN  IF CleanupPositions(messages) = {}
        THEN { [search_fails_at |-> 0, hidden |-> {}, delete_fails |-> {}] }
        ELSE { o \in [search_fails_at : { 0 } \cup CleanupPositions(messages),
                      hidden : SUBSET ids, delete_fails : SUBSET ids] :
                 /\ Cardinality(ids \ o.hidden) = Min({ PreCleanupLimit, Cardinality(ids) })
                 /\ o.delete_fails \cap o.hidden = {}
                 /\ o.search_fails_at # 0 => o.hidden = {} /\ o.delete_fails = {} }

\* add up to `await self.graphiti.add_episode(...)`: the guard, the
\* pre-cleanup, the enrichment and the vector add, which stores the facts it
\* extracts or raises. cap: the number of add calls of the behaviour.
AddWithin(messages, user_id, cap) ==
    LET k == Len(adds) + 1
        enhanced == enhanced_messages(messages, manager._last_user_message)
        call == [NewAdd(messages, user_id) EXCEPT !.initialized = TRUE, !.pc = "episode"]
    IN  /\ ~ Returning
        /\ k <= cap
        /\ IF NotInitialized
           THEN /\ adds' = Append(adds, NewAdd(messages, user_id))
                /\ UNCHANGED vector
           ELSE \E oracle \in CleanupOracles(messages, user_id) :
                  LET pre == PreCleanup(messages, user_id, 1, vector, << >>, oracle)
                  IN  IF pre.failed
                      THEN /\ adds' = Append(adds, OnException([call EXCEPT !.trace = pre.trace]))
                           /\ vector' = pre.vector
                      ELSE \/ /\ adds' = Append(adds, OnException([call EXCEPT
                                     !.enhanced = enhanced,
                                     !.trace = pre.trace \o << Step("vector_add", FALSE) >>]))
                              /\ vector' = pre.vector
                           \/ \E stored \in VectorAddChoices(enhanced) :
                                 /\ vector' = pre.vector \cup
                                        { [id |-> k, memory |-> m, user_id |-> user_id] :
                                          m \in stored }
                                 /\ adds' = Append(adds, [call EXCEPT
                                        !.results.mem0 = Some([results |-> { k : m \in stored }]),
                                        !.reference_time = now,
                                        !.enhanced = enhanced,
                                        !.episode_body = ConversationText(messages),
                                        !.trace = pre.trace \o << Step("vector_add", TRUE) >>])
        /\ UNCHANGED << manager, initPc, graph, now, search, probe >>

\* A call of add by a caller that is no turn of the orchestrator.
AddCall(messages, user_id) ==
    AddWithin(messages, user_id, MaxAdds) /\ UNCHANGED << closes, turn >>

\* The argument, had add read the clock again for the resolver.
ResolverReferenceTimeNow(c) == now

\* The reference_time argument add passes to invalidate_contradicting_facts.
ResolverReferenceTime(c) == c.reference_time

\* The keywords of the resolver call in progress.
ResolverKeywords(c) ==
    extract_topic_keywords(detect_negation(c.messages[c.msg_index].content))

\* The end of add's try block: the last user message is remembered and the
\* results are returned.
FinishAdd(c, last) ==
    LET contents == UserContents(c.messages)
    IN  [call |-> [c EXCEPT !.pc = "returned"],
         last |-> IF contents = << >> THEN last ELSE contents[Len(contents)]]

\* The contradiction loop of add from message i on, up to the next await:
\* the graph query of the resolver, or the end of add.
RECURSIVE ContinueMessages(_, _, _)
ContinueMessages(c, i, last) ==
    IF i > Len(c.messages) THEN FinishAdd(c, last)
    ELSE IF c.messages[i].role = "user" /\ detect_negation(c.messages[i].content) # None
    THEN IF extract_topic_keywords(detect_negation(c.messages[i].content)) = {}
         THEN ContinueMessages([c EXCEPT !.results.invalidated_facts = Some(0)], i + 1, last)
         ELSE [call |-> [c EXCEPT !.pc = "resolver_search", !.msg_index = i,
                                  !.resolver_reference_time = ResolverReferenceTime(c),
                                  !.related_facts = << >>, !.edge_index = 0,
                                  !.invalidated_count = 0],
               last |-> last]
    ELSE ContinueMessages(c, i + 1, last)

\* The edge loop of the resolver from edge j on, up to the next await: the
\* write of _invalidate_edge, or the return of the count to add.
RECURSIVE ContinueEdges(_, _, _)
ContinueEdges(c, j, last) ==
    IF j > Len(c.related_facts)
    THEN ContinueMessages(
             [c EXCEPT !.results.invalidated_facts = Some(c.invalidated_count)],
             c.msg_index + 1, last)
    ELSE IF ShouldInvalidate(c.related_facts[j], ResolverKeywords(c),
                             c.resolver_reference_time)
    THEN [call |-> [c EXCEPT !.pc = "invalidate", !.edge_index = j], last |-> last]
    ELSE ContinueEdges(c, j + 1, last)

\* add_episode returns, having created the edges it extracts, or raises.
EpisodeDone(k) ==
    /\ ~ Returning
    /\ k \in 1..Len(adds)
    /\ adds[k].pc = "episode"
    /\ \/ /\ adds' = [adds EXCEPT ![k] = OnException(
                         [@ EXCEPT !.trace = @ \o << Step("add_episode", FALSE) >>])]
          /\ UNCHANGED << manager, graph >>
       \/ \E created \in EpisodeChoices(adds[k].messages) :
             /\ graph' = graph \cup
                    { [uuid |-> k, fact |-> m, created_at |-> now, invalid_at |-> None,
                       episode |-> k, user_id |-> adds[k].user_id, writers |-> << >>] :
                      m \in created }
             /\ LET c == [adds[k] EXCEPT
                             !.results.graphiti = Some([episode |-> k]),
                             !.trace = @ \o << Step("add_episode", TRUE) >>]
                    next == ContinueMessages(c, 1, manager._last_user_message)
                IN  /\ adds' = [adds EXCEPT ![k] = next.call]
                    /\ manager' = [manager EXCEPT !._last_user_message = next.last]
    /\ UNCHANGED << initPc, vector, now, search, closes, turn, probe >>

\* The graph query of the resolver returns related_facts, or raises.
ResolverSearchDone(k) ==
    /\ ~ Returning
    /\ k \in 1..Len(adds)
    /\ adds[k].pc = "resolver_search"
    /\ \/ /\ adds' = [adds EXCEPT ![k] = OnException(
                         [@ EXCEPT !.trace = @ \o << Step("resolver_search", FALSE) >>])]
          /\ UNCHANGED manager
       \/ \E ranking \in Rankings(graph, ResolverLimit) :
             LET c == [adds[k] EXCEPT
                          !.related_facts = ranking,
                          !.trace = @ \o << Step("resolver_search", TRUE) >>]
                 next == ContinueEdges(c, 1, manager._last_user_message)
             IN  /\ adds' = [adds EXCEPT ![k] = next.call]
                 /\ manager' = [manager EXCEPT !._last_user_message = next.last]
    /\ UNCHANGED << initPc, vector, graph, now, search, closes, turn, probe >>

\* The write, had it deleted the relationship instead of marking it.
InvalidateEdgeByDelete(edges, uuid, invalid_at, k) == { e \in edges : e.uuid # uuid }

\* _invalidate_edge: SET r.invalid_at on the edge with the uuid.
InvalidateEdge(edges, uuid, invalid_at, k) ==
    { IF e.uuid = uuid
      THEN [e EXCEPT !.invalid_at = Some(invalid_at), !.writers = Append(@, k)]
      ELSE e : e \in edges }

\* The edge loop, had the failure of a write been left to the caller.
AfterInvalidateAbort(c, failed, last) ==
    IF failed THEN [call |-> OnException(c), last |-> last]
    ELSE ContinueEdges(c, c.edge_index + 1, last)

\* After the write: `except Exception as e: logger.error(...)` swallows the
\* failure, and the loop goes on with the next edge either way.
AfterInvalidate(c, failed, last) == ContinueEdges(c, c.edge_index + 1, last)

\* The write of _invalidate_edge returns or raises; the resolver goes on.
InvalidateDone(k, failed) ==
    /\ ~ Returning
    /\ k \in 1..Len(adds)
    /\ adds[k].pc = "invalidate"
    /\ LET edge == adds[k].related_facts[adds[k].edge_index]
           c == [adds[k] EXCEPT
                    !.invalidated_count = IF failed THEN @ ELSE @ + 1,
                    !.trace = @ \o << StepOn("invalidate", ~ failed, edge.uuid) >>]
           next == AfterInvalidate(c, failed, manager._last_user_message)
       IN  /\ graph' = IF failed THEN graph
                       ELSE InvalidateEdge(graph, edge.uuid, c.resolver_reference_time, k)
           /\ adds' = [adds EXCEPT ![k] = next.call]
           /\ manager' = [manager EXCEPT !._last_user_message = next.last]
    /\ UNCHANGED << initPc, vector, now, search, closes, turn, probe >>

\* The caller takes the results (or the error) of add and the call is over:
\* its locals are gone. A call that raised at the guard has done nothing.
AfterReturn(k) ==
    IF adds[k].pc = "raised"
    THEN SubSeq(adds, 1, k - 1) \o SubSeq(adds, k + 1, Len(adds))
    ELSE [adds EXCEPT ![k] =
             [NewAdd(<< >>, adds[k].user_id) EXCEPT
                 !.pc = "done", !.initialized = TRUE]]

AddReturn(k) ==
    /\ k \in 1..Len(adds)
    /\ adds[k].pc \in { "returned", "raised" }
    /\ adds' = AfterReturn(k)
    /\ UNCHANGED << manager, initPc, vector, graph, now, search, closes, turn, probe >>

(***************************************************************************)
(* The specifications                                                       *)
(***************************************************************************)

\* The orchestrator saves one turn at a time: _save_to_memory_async calls add
\* when the add of the turn before is over.
TurnAddCall(messages, user_id) ==
    /\ \A k \in 1..Len(adds) : adds[k].pc = "done"
    /\ AddCall(messages, user_id)

\* The manager under an orchestrator that searches at any time and saves one
\* turn at a time.
Next ==
    \/ \E failure \in { "none", "mem0", "graphiti" } : InitializeCall(failure)
    \/ \E failed \in BOOLEAN : InitializeDone(failed)
    \/ \E t \in Instants : Tick(t)
    \/ \E user_id \in USER_IDS : SearchCall(user_id)
    \/ SearchGraphDone
    \/ SearchReturn
    \/ \E messages \in Batches, user_id \in USER_IDS : TurnAddCall(messages, user_id)
    \/ \E k \in 1..MaxAdds : EpisodeDone(k)
    \/ \E k \in 1..MaxAdds : ResolverSearchDone(k)
    \/ \E k \in 1..MaxAdds, failed \in BOOLEAN : InvalidateDone(k, failed)
    \/ \E k \in 1..MaxAdds : AddReturn(k)

Spec == Init /\ [][Next]_vars

\* The manager under callers of add whose calls overlap in any way (each
\* save is a task of its own: asyncio.create_task), without searches.
NextAdds ==
    \/ \E failure \in { "none", "mem0", "graphiti" } : InitializeCall(failure)
    \/ \E failed \in BOOLEAN : InitializeDone(failed)
    \/ \E t \in Instants : Tick(t)
    \/ \E messages \in Batches, user_id \in USER_IDS : AddCall(messages, user_id)
    \/ \E k \in 1..MaxAdds : EpisodeDone(k)
    \/ \E k \in 1..MaxAdds : ResolverSearchDone(k)
    \/ \E k \in 1..MaxAdds, failed \in BOOLEAN : InvalidateDone(k, failed)
    \/ \E k \in 1..MaxAdds : AddReturn(k)

SpecAdds == Init /\ [][NextAdds]_vars

\* The batches of the correction scenario: a fact, and its correction.
ScenarioBatches ==
    { << User(WorksAtTesla), Assistant(Reply) >>,
      << User(LeftTesla), Assistant(Reply) >> }

\* The manager on the turns of the correction scenario, each search observed
\* together with the add calls that were over when it was called.
NextObserved ==
    \/ \E failure \in { "none", "mem0", "graphiti" } : InitializeCall(failure)
    \/ \E failed \in BOOLEAN : InitializeDone(failed)
    \/ \E t \in Instants : Tick(t)
    \/ \E user_id \in USER_IDS : ObservedSearchCall(user_id)
    \/ SearchGraphDone
    \/ SearchReturn
    \/ \E messages \in ScenarioBatches, user_id \in USER_IDS : TurnAddCall(messages, user_id)
    \/ \E k \in 1..MaxAdds : EpisodeDone(k)
    \/ \E k \in 1..MaxAdds : ResolverSearchDone(k)
    \/ \E k \in 1..MaxAdds, failed \in BOOLEAN : InvalidateDone(k, failed)
    \/ \E k \in 1..MaxAdds : AddReturn(k)

SpecObserved == Init /\ [][NextObserved]_vars

\* The users of the manager: user_id is a parameter of add and of search.
TURN_USER_IDS == { "alice", "bob" }

\* The turns in which a user states an employer, and then another.
AssertionBatches ==
    { << User(WorksAtTesla), Assistant(Reply) >>,
      << User(WorksAtGoogle), Assistant(Reply) >> }

\* One saved turn at a time, of either user.
UserTurnAddCall(messages, user_id) ==
    /\ \A k \in 1..Len(adds) : adds[k].pc = "done"
    /\ AddCall(messages, user_id)

\* The manager under the saved turns of two users, without searches.
NextUsers ==
    \/ \E failure \in { "none", "mem0", "graphiti" } : InitializeCall(failure)
    \/ \E failed \in BOOLEAN : InitializeDone(failed)
    \/ \E t \in Instants : Tick(t)
    \/ \E messages \in AssertionBatches, user_id \in TURN_USER_IDS :
          UserTurnAddCall(messages, user_id)
    \/ \E k \in 1..MaxAdds : EpisodeDone(k)
    \/ \E k \in 1..MaxAdds : ResolverSearchDone(k)
    \/ \E k \in 1..MaxAdds, failed \in BOOLEAN : InvalidateDone(k, failed)
    \/ \E k \in 1..MaxAdds : AddReturn(k)

SpecUsers == Init /\ [][NextUsers]_vars

\* The number of add calls of a behaviour in which a user repeats a turn.
MaxRepeats == 3

\* The turn the user repeats.
RepeatedBatches == { << User(WorksAtTesla), Assistant(Reply) >> }

\* One saved turn at a time, up to MaxRepeats of them.
RepeatedAddCall(messages, user_id) ==
    /\ \A k \in 1..Len(adds) : adds[k].pc = "done"
    /\ AddWithin(messages, user_id, MaxRepeats)
    /\ UNCHANGED << closes, turn >>

\* The manager under the repeated turns of one user, without searches.
NextRepeats ==
    \/ \E failure \in { "none", "mem0", "graphiti" } : InitializeCall(failure)
    \/ \E failed \in BOOLEAN : InitializeDone(failed)
    \/ \E t \in Instants : Tick(t)
    \/ \E messages \in RepeatedBatches, user_id \in USER_IDS :
          RepeatedAddCall(messages, user_id)
    \/ \E k \in 1..MaxRepeats : EpisodeDone(k)
    \/ \E k \in 1..MaxRepeats : ResolverSearchDone(k)
    \/ \E k \in 1..MaxRepeats, failed \in BOOLEAN : InvalidateDone(k, failed)
    \/ \E k \in 1..MaxRepeats : AddReturn(k)

SpecRepeats == Init /\ [][NextRepeats]_vars

\* A saved turn of the user who repeats a turn: the first one alone, each
\* later one as a task of its own (asyncio.create_task).
OverlappingAddCall(messages, user_id) ==
    /\ Len(adds) >= 1 => adds[1].pc = "done"
    /\ AddWithin(messages, user_id, MaxRepeats)
    /\ UNCHANGED << closes, turn >>

\* The manager under the repeated turns of one user: after the first saved
\* turn the saves overlap in any way, without searches.
NextOverlaps ==
    \/ \E failure \in { "none", "mem0", "graphiti" } : InitializeCall(failure)
    \/ \E failed \in BOOLEAN : InitializeDone(failed)
    \/ \E t \in { GraceSeconds + 1 } : Tick(t)
    \/ \E messages \in RepeatedBatches, user_id \in USER_IDS :
          OverlappingAddCall(messages, user_id)
    \/ \E k \in 1..MaxRepeats : EpisodeDone(k)
    \/ \E k \in 1..MaxRepeats : ResolverSearchDone(k)
    \/ \E k \in 1..MaxRepeats, failed \in BOOLEAN : InvalidateDone(k, failed)
    \/ \E k \in 1..MaxRepeats : AddReturn(k)

SpecOverlaps == Init /\ [][NextOverlaps]_vars

\* The batches of a caller of add who hands over more than one user message:
\* a turn, and a turn followed by the user's next message.
CorrectionBatches ==
    { << User(WorksAtTesla), Assistant(Reply) >>,
      << User(WorksAtTesla), Assistant(Reply), User(WorksAtTesla) >> }

\* One call of add at a time.
BatchAddCall(messages, user_id) ==
    /\ \A k \in 1..Len(adds) : adds[k].pc = "done"
    /\ AddWithin(messages, user_id, MaxAdds)
    /\ UNCHANGED << closes, turn >>

\* The manager under a caller of add whose batches hold several user
\* messages, without searches.
NextBatches ==
    \/ \E failure \in { "none", "mem0", "graphiti" } : InitializeCall(failure)
    \/ \E failed \in BOOLEAN : InitializeDone(failed)
    \/ \E t \in Instants : Tick(t)
    \/ \E messages \in CorrectionBatches, user_id \in USER_IDS :
          BatchAddCall(messages, user_id)
    \/ \E k \in 1..MaxAdds : EpisodeDone(k)
    \/ \E k \in 1..MaxAdds : ResolverSearchDone(k)
    \/ \E k \in 1..MaxAdds, failed \in BOOLEAN : InvalidateDone(k, failed)
    \/ \E k \in 1..MaxAdds : AddReturn(k)

SpecBatches == Init /\ [][NextBatches]_vars

\* The life cycle of the manager: start-up, searches, and the shutdown of
\* the application (or of a script) that closes it.
NextLifecycle ==
    \/ \E failure \in { "none", "mem0", "graphiti" } : InitializeCall(failure)
    \/ \E failed \in BOOLEAN : InitializeDone(failed)
    \/ \E t \in Instants : Tick(t)
    \/ \E user_id \in USER_IDS : SearchCall(user_id)
    \/ SearchGraphDone
    \/ SearchReturn
    \/ Close

SpecLifecycle == Init /\ [][NextLifecycle]_vars

(***************************************************************************)
(* Direct calls of the functions of ContradictionHandler                    *)
(***************************************************************************)

\* The length, in words, of the messages handed to detect_negation.
MaxWords == 4

ProbeWords == { "Actually", "I'm", "I", "not", "flipped", "work", "at", "Tesla" }

\* The messages of at most MaxWords words.
ProbeMessages == UNION { [1..n -> ProbeWords] : n \in 1..MaxWords }

\* detect_negation(message) is called.
InitDetect ==
    /\ probe \in { [pc |-> "called", op |-> "detect_negation", message |-> m,
                    result |-> None] : m \in ProbeMessages }
    /\ Constructed

\* detect_negation returns.
DetectNegationReturn ==
    /\ probe.pc = "called"
    /\ probe.op = "detect_negation"
    /\ probe' = [probe EXCEPT !.pc = "returned",
                              !.result = detect_negation(probe.message)]
    /\ UNCHANGED << manager, initPc, vector, graph, now, adds, search, closes, turn >>

\* The offsets from UTC of a zone, in hours, are within -MaxOffset..MaxOffset.
MaxOffset == 1

HourSeconds == 3600

Offsets == { h * HourSeconds : h \in -MaxOffset..MaxOffset }

\* The instants of the creation of an edge and of a later reading of the
\* clock: less than the grace window apart, or more.
ProbeInstants == Instants \cup { GraceSeconds - 1 }

\* The age test of the edge loop is reached: the edge was created at the
\* instant `created` and carries created_at in the zone of created_offset;
\* reference_time was read at the instant `reference` by a process in the
\* zone of process_offset.
InitAge ==
    /\ probe \in { [pc |-> "called", op |-> "time_diff", created |-> c,
                    created_offset |-> co, reference |-> r, process_offset |-> po,
                    result |-> 0, skipped |-> FALSE] :
                   c \in ProbeInstants, co \in Offsets,
                   r \in ProbeInstants, po \in Offsets }
    /\ probe.created <= probe.reference
    /\ Constructed

\* time_diff is computed and compared with the grace window.
TimeDiffReturn ==
    /\ probe.pc = "called"
    /\ probe.op = "time_diff"
    /\ LET age == time_diff(AwareAt(probe.created, probe.created_offset),
                            LocalNow(probe.reference, probe.process_offset))
       IN  probe' = [probe EXCEPT !.pc = "returned", !.result = age,
                                  !.skipped = age < GraceSeconds]
    /\ UNCHANGED << manager, initPc, vector, graph, now, adds, search, closes, turn >>

NextAge == TimeDiffReturn

SpecAge == InitAge /\ [][NextAge]_vars

NextDetect == DetectNegationReturn

SpecDetect == InitDetect /\ [][NextDetect]_vars

(***************************************************************************)
(* PydanticAIAgent.process_message and process_message_stream               *)
(*                                                                          *)
(* One user turn at a time.  turn.pc is the await the turn is at; the       *)
(* memory manager exists (self.memory is set), initialized or not.  The     *)
(* time context of the prompt is left out.                                  *)
(***************************************************************************)

\* config.MEM0_USER_ID: the one user of the orchestrator.
MEM0_USER_ID == "alice"

TurnInputs == { WorksAtTesla }

TurnBatch(user_input, agent_response) == << User(user_input), Assistant(agent_response) >>

\* The prompt: the memory context, then the user's input.
FullMessage(memory_context, user_input) ==
    [context |-> memory_context, user_input |-> user_input]

\* A turn arrives.  process_message_stream with a valid timezone in
\* location_context (located) skips the memory search of _get_user_timezone;
\* process_message has no location_context.
TurnStart(path, located, user_input) ==
    /\ turn.pc = "idle"
    /\ path = "message" => ~ located
    /\ Len(adds) + Len(turn.tasks) < MaxAdds
    /\ turn' = [IdleTurn EXCEPT !.pc = IF located THEN "context" ELSE "timezone",
                                !.path = path, !.user_input = user_input,
                                !.tasks = turn.tasks, !.entry = turn.entry,
                                !.memory = turn.memory]
    /\ UNCHANGED << manager, initPc, vector, graph, now, adds, search, closes, probe >>

\* `await self.memory.search(...)` of _get_user_timezone and of
\* _get_memory_context: the call is awaited as it is, with no time limit.
\* (The limits 5 and 3 of the two calls exceed the facts a user has here.)
MemorySearchCall ==
    /\ turn.pc \in { "timezone", "context" }
    /\ turn.memory
    /\ SearchFrom(MEM0_USER_ID, {})
    /\ turn' = [turn EXCEPT !.pc = IF @ = "timezone" THEN "timezone_wait"
                                   ELSE "context_wait"]
    /\ UNCHANGED closes

\* _get_user_timezone resumes: the search has returned or raised (caught).
TimezoneDone ==
    /\ turn.pc = "timezone_wait"
    /\ search.pc \in { "returned", "raised" }
    /\ search' = IdleSearch
    /\ turn' = [turn EXCEPT !.pc = "context"]
    /\ UNCHANGED << manager, initPc, vector, graph, now, adds, closes, probe >>

\* _get_memory_context resumes: combined_context if the search returned,
\* "" if it raised; the prompt is built and the model is invoked.
ContextDone ==
    LET memory_context == IF search.pc = "returned"
                          THEN search.results.combined_context ELSE << >>
    IN  /\ turn.pc = "context_wait"
        /\ search.pc \in { "returned", "raised" }
        /\ search' = IdleSearch
        /\ turn' = [turn EXCEPT !.pc = "agent", !.memory_context = memory_context,
                                !.full_message = FullMessage(memory_context, turn.user_input)]
        /\ UNCHANGED << manager, initPc, vector, graph, now, adds, closes, probe >>

\* The model call raises: both paths hand the error text to the caller and
\* save nothing.
AgentFailed ==
    /\ turn.pc = "agent"
    /\ turn' = [turn EXCEPT !.pc = "idle", !.response = << "error" >>,
                            !.delivered = TRUE]
    /\ UNCHANGED << manager, initPc, vector, graph, now, adds, search, closes, probe >>

\* process_message, the model has answered: the response is held while
\* `await self._save_to_memory(user_input, response)` runs, which comes
\* before `return response`.
AgentAnswered ==
    /\ turn.pc = "agent"
    /\ turn.path = "message"
    /\ turn' = [turn EXCEPT !.pc = "save", !.response = Reply]
    /\ UNCHANGED << manager, initPc, vector, graph, now, adds, search, closes, probe >>

\* `await self.memory.add(messages=[user, assistant], ...)`, run up to its
\* first await: by _save_to_memory, which the turn of process_message
\* awaits (origin "turn"), or by a task of _save_to_memory_async that the
\* event loop starts (origin "task").
MemoryAddCall(origin) ==
    /\ origin = "turn" => turn.pc = "save"
    /\ origin = "task" => turn.tasks # << >>
    /\ turn.memory
    /\ \E messages \in { IF origin = "turn"
                          THEN TurnBatch(turn.user_input, turn.response)
                          ELSE Head(turn.tasks) } :
          AddWithin(messages, MEM0_USER_ID, MaxAdds)
    /\ turn' = IF origin = "turn"
               THEN [turn EXCEPT !.pc = "saving", !.awaiting = Len(adds) + 1]
               ELSE [turn EXCEPT !.tasks = Tail(@)]
    /\ UNCHANGED closes

\* process_message, had it returned the response without awaiting the add.
SaveDoneEarly ==
    /\ turn.pc = "saving"
    /\ turn.awaiting \in 1..Len(adds)
    /\ turn' = [turn EXCEPT !.pc = "idle", !.delivered = TRUE, !.awaiting = 0]
    /\ UNCHANGED << manager, initPc, vector, graph, now, adds, search, closes, probe >>

\* process_message, add has returned or raised (caught and logged by
\* _save_to_memory): `return response`.
SaveDone ==
    /\ turn.pc = "saving"
    /\ turn.awaiting \in 1..Len(adds)
    /\ adds[turn.awaiting].pc \in { "returned", "raised" }
    /\ adds' = AfterReturn(turn.awaiting)
    /\ turn' = [turn EXCEPT !.pc = "idle", !.delivered = TRUE, !.awaiting = 0]
    /\ UNCHANGED << manager, initPc, vector, graph, now, search, closes, probe >>

\* process_message_stream, the model has answered: every token has been
\* yielded, then asyncio.create_task(self._save_to_memory_async(...)).
AgentStreamed ==
    /\ turn.pc = "agent"
    /\ turn.path = "stream"
    /\ turn' = [turn EXCEPT !.pc = "idle", !.response = Reply, !.delivered = TRUE,
                            !.tasks = Append(@, TurnBatch(turn.user_input, Reply))]
    /\ UNCHANGED << manager, initPc, vector, graph, now, adds, search, closes, probe >>

\* The add of a task returns or raises (caught and logged by the task).
SaveTaskDone(k) ==
    /\ k # turn.awaiting
    /\ AddReturn(k)

NextTurns ==
    \/ \E failure \in { "none", "mem0", "graphiti" } : InitializeCall(failure)
    \/ \E failed \in BOOLEAN : InitializeDone(failed)
    \/ \E t \in Instants : Tick(t)
    \/ \E path \in { "message", "stream" }, located \in BOOLEAN, user_input \in TurnInputs :
          TurnStart(path, located, user_input)
    \/ MemorySearchCall
    \/ SearchGraphDone
    \/ TimezoneDone
    \/ ContextDone
    \/ AgentFailed
    \/ AgentAnswered
    \/ AgentStreamed
    \/ \E origin \in { "turn", "task" } : MemoryAddCall(origin)
    \/ \E k \in 1..MaxAdds : EpisodeDone(k)
    \/ \E k \in 1..MaxAdds : ResolverSearchDone(k)
    \/ \E k \in 1..MaxAdds, failed \in BOOLEAN : InvalidateDone(k, failed)
    \/ SaveDone
    \/ \E k \in 1..MaxAdds : SaveTaskDone(k)

\* The event loop resumes every coroutine whose awaited call has completed,
\* a turn goes on to its next call, and the stores answer the calls of add.
\* Nothing is assumed of the answer of the graph query of a search
\* (SearchGraphDone), of the model, of the calls of add, or of the arrival
\* of turns.
TurnsFairness ==
    /\ WF_vars(\E failed \in BOOLEAN : InitializeDone(failed))
    /\ WF_vars(MemorySearchCall)
    /\ WF_vars(TimezoneDone)
    /\ WF_vars(ContextDone)
    /\ WF_vars(\E k \in 1..MaxAdds : EpisodeDone(k))
    /\ WF_vars(\E k \in 1..MaxAdds : ResolverSearchDone(k))
    /\ WF_vars(\E k \in 1..MaxAdds, failed \in BOOLEAN : InvalidateDone(k, failed))
    /\ WF_vars(SaveDone)
    /\ WF_vars(\E k \in 1..MaxAdds : SaveTaskDone(k))

SpecTurns == Init /\ [][NextTurns]_vars /\ TurnsFairness

(***************************************************************************)
(* The entry points: main() of the command line, startup_event of the API   *)
(*                                                                          *)
(* turn.entry is the entry point the process was started by, turn.memory    *)
(* is `self.memory is not None`.                                            *)
(***************************************************************************)

\* main(): `agent = PydanticAIAgent()`, then run_conversation_loop.
\* created: _initialize_memory has returned a manager (None if it failed).
Main(created) ==
    /\ turn.entry = "none"
    /\ turn.pc = "idle"
    /\ turn' = [turn EXCEPT !.entry = "cli", !.memory = created]
    /\ UNCHANGED << manager, initPc, vector, graph, now, adds, search, closes, probe >>

\* startup_event: `agent = PydanticAIAgent()`, then, if agent.memory,
\* initialize_memory_async up to the await inside initialize; an exception
\* of initialize sets self.memory = None.
StartupCall(created, failure) ==
    /\ turn.entry = "none"
    /\ turn.pc = "idle"
    /\ IF created
       THEN /\ InitializeWithin(failure)
            /\ turn' = [turn EXCEPT
                            !.entry = IF initPc' = "building" THEN "api_startup" ELSE "api",
                            !.memory = initPc' = "building"]
       ELSE /\ turn' = [turn EXCEPT !.entry = "api", !.memory = FALSE]
            /\ UNCHANGED << manager, initPc, vector, graph, now, adds, search,
                            closes, probe >>

\* initialize_memory_async resumes; the application starts to serve.
StartupDone(failed) ==
    /\ turn.entry = "api_startup"
    /\ InitializeResumed(failed)
    /\ turn' = [turn EXCEPT !.entry = "api", !.memory = ~ failed]

\* A turn of a started process: process_message in the conversation loop,
\* either path behind the API.
EntryTurnStart(path, located, user_input) ==
    /\ turn.entry \in { "cli", "api" }
    /\ turn.entry = "cli" => path = "message"
    /\ TurnStart(path, located, user_input)

\* `if not self.memory:` of _get_user_timezone and of _get_memory_context:
\* no search, the default timezone or the empty context.
MemorySkipped ==
    /\ turn.pc \in { "timezone", "context" }
    /\ ~ turn.memory
    /\ turn' = IF turn.pc = "timezone"
               THEN [turn EXCEPT !.pc = "context"]
               ELSE [turn EXCEPT !.pc = "agent", !.memory_context = << >>,
                                 !.full_message = FullMessage(<< >>, turn.user_input)]
    /\ UNCHANGED << manager, initPc, vector, graph, now, adds, search, closes, probe >>

\* `if not self.memory: return` of _save_to_memory and _save_to_memory_async.
SaveSkipped(origin) ==
    /\ origin = "turn" => turn.pc = "save"
    /\ origin = "task" => turn.tasks # << >>
    /\ ~ turn.memory
    /\ turn' = IF origin = "turn"
               THEN [turn EXCEPT !.pc = "idle", !.delivered = TRUE]
               ELSE [turn EXCEPT !.tasks = Tail(@)]
    /\ UNCHANGED << manager, initPc, vector, graph, now, adds, search, closes, probe >>

\* A process from its start.  No time passes here, so that every edge stays
\* within the grace window and no call of add reaches _invalidate_edge.
NextEntry ==
    \/ \E created \in BOOLEAN : Main(created)
    \/ \E created \in BOOLEAN, failure \in { "none", "mem0", "graphiti" } :
          StartupCall(created, failure)
    \/ \E failed \in BOOLEAN : StartupDone(failed)
    \/ \E path \in { "message", "stream" }, located \in BOOLEAN, user_input \in TurnInputs :
          EntryTurnStart(path, located, user_input)
    \/ MemorySearchCall
    \/ MemorySkipped
    \/ SearchGraphDone
    \/ TimezoneDone
    \/ ContextDone
    \/ AgentFailed
    \/ AgentAnswered
    \/ AgentStreamed
    \/ \E origin \in { "turn", "task" } : MemoryAddCall(origin)
    \/ \E origin \in { "turn", "task" } : SaveSkipped(origin)
    \/ \E k \in 1..MaxAdds : EpisodeDone(k)
    \/ \E k \in 1..MaxAdds : ResolverSearchDone(k)
    \/ SaveDone
    \/ \E k \in 1..MaxAdds : SaveTaskDone(k)

SpecEntry == Init /\ [][NextEntry]_vars

(***************************************************************************)
(* Properties of search                                                     *)
(***************************************************************************)

\* The sub-step op of the trace completed / raised.
StepDone(trace, op) == \E i \in 1..Len(trace) : trace[i].op = op /\ trace[i].ok

StepFailed(trace, op) == \E i \in 1..Len(trace) : trace[i].op = op /\ ~ trace[i].ok

\* search has returned its results, both queries having completed.
SearchAnswered ==
    /\ search.pc = "returned"
    /\ StepDone(search.trace, "vector_search")
    /\ StepDone(search.trace, "graph_search")

\* The first line of a non-empty combined_context is empty (the text starts
\* with a line break) and the second is the header.
ContextHeader == << << >>, << "[Previous", "Context]:" >> >>

\* Line j of the context comes from the edge.
LineOfEdge(j, edge) ==
    /\ j \in 1..Len(search.context_parts)
    /\ search.context_parts[j].source = "graph"
    /\ search.context_parts[j].id = edge.uuid
    /\ search.results.combined_context[j + Len(ContextHeader)] = << "-" >> \o edge.fact

\* C1: when search returns, an edge of the graph query's result whose
\* invalid_at is set has contributed no line to combined_context, and an edge
\* whose invalid_at is None has contributed a line "- <fact>"; every line
\* of combined_context after the header is one of context_parts.
C1_GraphValidityFilter ==
    SearchAnswered =>
        LET graph_results == search.results.graph_results
            parts == search.context_parts
            context == search.results.combined_context
        IN  /\ Len(context) = IF parts = << >> THEN 0 ELSE Len(parts) + Len(ContextHeader)
            /\ \A j \in 1..Len(parts) : context[j + Len(ContextHeader)] = parts[j].line
            /\ \A i \in 1..Len(graph_results) :
                  IF graph_results[i].invalid_at # None
                  THEN \A j \in 1..Len(parts) :
                          ~ (parts[j].source = "graph" /\ parts[j].id = graph_results[i].uuid)
                  ELSE \E j \in 1..Len(parts) : LineOfEdge(j, graph_results[i])

\* A search has returned an invalidated edge and a valid one.
C1_Witness ==
    /\ SearchAnswered
    /\ \E i, j \in 1..Len(search.results.graph_results) :
          /\ search.results.graph_results[i].invalid_at # None
          /\ search.results.graph_results[j].invalid_at = None

\* The valid edges of the graph query's result, in its order.
RECURSIVE ValidEdges(_)
ValidEdges(edges) ==
    IF edges = << >> THEN << >>
    ELSE (IF Head(edges).invalid_at = None THEN << Head(edges) >> ELSE << >>)
            \o ValidEdges(Tail(edges))

\* C9: when search returns, combined_context is empty or is the header,
\* then one line "- <memory>" per vector result in the order of the vector
\* query's result, then one line "- <fact>" per valid edge in the order of the
\* graph query's result.
C9_FusionOrder ==
    SearchAnswered =>
        LET vector_results == search.results.vector_results
            valid == ValidEdges(search.results.graph_results)
            context == search.results.combined_context
            n == Len(vector_results)
        IN  \/ n + Len(valid) = 0 /\ context = << >>
            \/ /\ n + Len(valid) > 0
               /\ Len(context) = Len(ContextHeader) + n + Len(valid)
               /\ SubSeq(context, 1, Len(ContextHeader)) = ContextHeader
               /\ \A i \in 1..n :
                     context[Len(ContextHeader) + i] = << "-" >> \o vector_results[i].memory
               /\ \A i \in 1..Len(valid) :
                     context[Len(ContextHeader) + n + i] = << "-" >> \o valid[i].fact

\* A search has returned two vector results, the later stored first, and at
\* least one valid edge.
C9_Witness ==
    /\ SearchAnswered
    /\ Len(search.results.vector_results) = 2
    /\ search.results.vector_results[1].id > search.results.vector_results[2].id
    /\ ValidEdges(search.results.graph_results) # << >>

\* C10: a search that passed the guard and has no vector result and no valid
\* edge in its results has returned (it has not raised) and its
\* combined_context is the empty string.
C10_EmptyContext ==
    (/\ search.pc \in { "returned", "raised" }
     /\ search.initialized
     /\ search.results.vector_results = << >>
     /\ ValidEdges(search.results.graph_results) = << >>) =>
        /\ search.pc = "returned"
        /\ search.results.combined_context = << >>

\* A search has returned no vector result and invalidated edges only.
C10_Witness ==
    /\ SearchAnswered
    /\ search.results.vector_results = << >>
    /\ search.results.graph_results # << >>
    /\ ValidEdges(search.results.graph_results) = << >>

\* Every vector result has its line in combined_context.
VectorLinesKept ==
    \A i \in 1..Len(search.results.vector_results) :
        \E j \in 1..Len(search.results.combined_context) :
            search.results.combined_context[j]
                = << "-" >> \o search.results.vector_results[i].memory

\* C8: a search that passed the guard does not raise; when the graph query
\* raised after the vector query completed, the vector results have their
\* lines in combined_context; when the vector query raised, the graph query has
\* still been made.
C8_SearchDegradesPerSource ==
    (search.pc \in { "returned", "raised" } /\ search.initialized) =>
        /\ search.pc = "returned"
        /\ (StepDone(search.trace, "vector_search") /\ StepFailed(search.trace, "graph_search"))
              => VectorLinesKept
        /\ StepFailed(search.trace, "vector_search")
              => \E i \in 1..Len(search.trace) : search.trace[i].op = "graph_search"

(***************************************************************************)
(* Properties of initialize and of the guard                                *)
(***************************************************************************)

\* A call of search or add is made in this step.
SearchIsCalled == search.pc = "idle" /\ search'.pc # "idle"

AddIsCalled == Len(adds') > Len(adds)

\* C6: _initialized is set only when both stores and the contradiction
\* handler are; and a call of search or add made while _initialized is not set
\* raises at once, having made no sub-step on a store and leaving both stores
\* as they were.
C6_NotInitializedGuard ==
    /\ [](manager._initialized =>
             manager.mem0 /\ manager.graphiti /\ manager.contradiction_handler)
    /\ [][ ~ manager._initialized =>
             /\ SearchIsCalled =>
                   /\ search'.pc = "raised"
                   /\ search'.trace = << >>
                   /\ vector' = vector /\ graph' = graph
             /\ AddIsCalled =>
                   /\ adds'[Len(adds')].pc = "raised"
                   /\ adds'[Len(adds')].trace = << >>
                   /\ vector' = vector /\ graph' = graph ]_vars

\* add has raised on a manager whose initialize failed after the vector store
\* was constructed.
C6_Witness ==
    /\ manager.mem0
    /\ ~ manager._initialized
    /\ \E k \in 1..Len(adds) : adds[k].pc = "raised"

(***************************************************************************)
(* Properties of add                                                        *)
(***************************************************************************)

\* The number of sub-steps op of the trace that completed.
RECURSIVE CountDone(_, _)
CountDone(trace, op) ==
    IF trace = << >> THEN 0
    ELSE (IF Head(trace).op = op /\ Head(trace).ok THEN 1 ELSE 0)
            + CountDone(Tail(trace), op)

\* C7: on an initialized manager add does not raise; when it returns, the
\* mem0 entry of its results is set exactly if the vector add completed, the
\* graphiti entry exactly if add_episode completed, and invalidated_facts is
\* the number of edges the resolver invalidated if its graph query completed
\* and is None if that query raised.
C7_AddReturnsPartialResults ==
    \A k \in 1..Len(adds) :
        /\ manager._initialized => adds[k].pc # "raised"
        /\ adds[k].pc = "returned" =>
              /\ adds[k].results.mem0 # None <=> StepDone(adds[k].trace, "vector_add")
              /\ adds[k].results.graphiti # None <=> StepDone(adds[k].trace, "add_episode")
              /\ StepDone(adds[k].trace, "resolver_search") =>
                    adds[k].results.invalidated_facts
                        = Some(CountDone(adds[k].trace, "invalidate"))
              /\ StepFailed(adds[k].trace, "resolver_search") =>
                    adds[k].results.invalidated_facts = None

\* add has returned after the graph query of the resolver raised: two entries
\* of its results are set, the third is not.
C7_Witness ==
    \E k \in 1..Len(adds) :
        /\ adds[k].pc = "returned"
        /\ StepFailed(adds[k].trace, "resolver_search")
        /\ adds[k].results.mem0 # None
        /\ adds[k].results.graphiti # None
        /\ adds[k].results.invalidated_facts = None

(***************************************************************************)
(* Properties of the contradiction pass                                     *)
(***************************************************************************)

\* The add call c has returned and its resolver's graph query had completed:
\* c still holds the result set and the reference_time of the resolver.
ResolverRan(c) == c.pc = "returned" /\ StepDone(c.trace, "resolver_search")

\* The edges of the resolver's result set.
RelatedFacts(c) == { c.related_facts[j] : j \in 1..Len(c.related_facts) }

\* The call handed the edge to _invalidate_edge / the write completed.
Attempted(c, edge) ==
    \E i \in 1..Len(c.trace) : c.trace[i].op = "invalidate" /\ c.trace[i].target = edge.uuid

Written(c, edge) ==
    \E i \in 1..Len(c.trace) :
        c.trace[i].op = "invalidate" /\ c.trace[i].target = edge.uuid /\ c.trace[i].ok

\* The edge is marked invalid in the graph store.
InvalidInStore(edge) == \E e \in graph : e.uuid = edge.uuid /\ e.invalid_at # None

\* The lower-cased fact of the edge contains a keyword / a negation marker.
SomeKeywordIn(c, edge) ==
    \E keyword \in ResolverKeywords(c) : InText(keyword, LowerText(edge.fact))

EveryKeywordIn(c, edge) ==
    \A keyword \in ResolverKeywords(c) : InText(keyword, LowerText(edge.fact))

MarkerIn(edge) == \E neg \in NegationMarkers : InText(neg, LowerText(edge.fact))

ValidAndOld(c, edge) ==
    /\ edge.invalid_at = None
    /\ c.resolver_reference_time >= edge.created_at + GraceSeconds

InContradictionPass(c) == c.pc \in { "resolver_search", "invalidate" } \/ ResolverRan(c)

SupersededLines ==
    { << "-" >> \o fact : fact \in GraphitiFacts(WorksAtTesla) \cup Mem0Facts(WorksAtTesla) }

\* The edge of the superseded fact was invalidated by a correction whose
\* reference_time is at least 20 seconds after the creation of the edge, and
\* the add call of that correction was over when the search was called.
CorrectedBefore(edge, call) ==
    /\ edge.fact \in GraphitiFacts(WorksAtTesla)
    /\ edge.invalid_at # None
    /\ edge.invalid_at[1] >= edge.created_at + 2 * GraceSeconds
    /\ \E i \in 1..Len(edge.writers) : edge.writers[i] \in call.after

\* C4 as stated: once the correction has invalidated the edge of the earlier
\* fact, a search called afterwards returns a combined_context with no line of
\* the superseded fact, neither the line of its edge nor that of its vector
\* fact.
C4_EndToEndCorrection ==
    \A e \in graph :
        (search.pc = "returned" /\ CorrectedBefore(e, search)) =>
            \A j \in 1..Len(search.results.combined_context) :
                search.results.combined_context[j] \notin SupersededLines

(***************************************************************************)
(* Properties of the resolver's edge loop                                   *)
(***************************************************************************)

\* The edge of the result set passes the tests of the loop: it is valid, older
\* than the grace window, matches a keyword and carries no negation marker.
Selected(c, edge) ==
    /\ ValidAndOld(c, edge)
    /\ SomeKeywordIn(c, edge)
    /\ ~ MarkerIn(edge)

\* C11: an add call whose resolver met a failing invalidation write does not
\* raise; once it has returned, every selected edge of the result set has been
\* handed to _invalidate_edge, those after the failed write included, and the
\* count it reports is the number of writes that completed.
C11_PerEdgeFailureIsolation ==
    \A k \in 1..Len(adds) :
        /\ StepFailed(adds[k].trace, "invalidate") => adds[k].pc # "raised"
        /\ ResolverRan(adds[k]) =>
              /\ \A e \in RelatedFacts(adds[k]) : Selected(adds[k], e) => Attempted(adds[k], e)
              /\ adds[k].results.invalidated_facts
                    = Some(CountDone(adds[k].trace, "invalidate"))

\* A resolver has selected two edges: the write for the first failed, the
\* write for the second completed, and the count is one.
C11_Witness ==
    \E k \in 1..Len(adds) :
        /\ ResolverRan(adds[k])
        /\ \E i, j \in 1..Len(adds[k].trace) :
              /\ i < j
              /\ adds[k].trace[i].op = "invalidate" /\ ~ adds[k].trace[i].ok
              /\ adds[k].trace[j].op = "invalidate" /\ adds[k].trace[j].ok
        /\ adds[k].results.invalidated_facts = Some(1)

\* C12 as stated: every add call that has set invalid_at on an edge was made
\* for the user from whose episode the edge was produced.
C12_ResolverScopedToUser ==
    \A e \in graph :
        \A i \in 1..Len(e.writers) : adds[e.writers[i]].user_id = e.user_id

(***************************************************************************)
(* Properties of the vector pre-cleanup                                     *)
(***************************************************************************)

\* The add call made in this step, once it has passed the guard.
NewCall == adds'[Len(adds')]

\* The call handed the fact to mem0.delete / the delete completed.
DeleteAttempted(c, fact) ==
    \E i \in 1..Len(c.trace) : c.trace[i].op = "vector_delete" /\ c.trace[i].target = fact.id

DeleteDone(c, fact) ==
    \E i \in 1..Len(c.trace) :
        c.trace[i].op = "vector_delete" /\ c.trace[i].target = fact.id /\ c.trace[i].ok

\* The text of the fact contains every keyword of the set, whatever the case.
HoldsEvery(keywords, fact) ==
    \A keyword \in keywords : InText(LowerText(keyword), LowerText(fact.memory))

\* C13: in a call of add, a fact of the vector store is handed to mem0.delete
\* only if it belongs to the user and its text contains every keyword of the
\* merged keyword set of a correction of the batch, and, the query of the
\* pre-cleanup having completed, every such fact is; a fact leaves the store
\* exactly if its delete completed; and when no user message of the batch is
\* detected as a correction, nothing is handed to mem0.delete and no fact
\* leaves the store.
C13_ConjunctivePreCleanup ==
    [][ (AddIsCalled /\ NewCall.initialized) =>
          LET c == NewCall
              corrections == CleanupPositions(c.messages)
          IN  /\ \A f \in vector :
                    /\ DeleteAttempted(c, f) =>
                          /\ f.user_id = c.user_id
                          /\ \E i \in corrections : HoldsEvery(CleanupKeywords(c.messages, i), f)
                    /\ (/\ StepDone(c.trace, "vector_search")
                        /\ f.user_id = c.user_id
                        /\ \E i \in corrections :
                              HoldsEvery(CleanupKeywords(c.messages, i), f)) =>
                          DeleteAttempted(c, f)
                    /\ f \notin vector' <=> DeleteDone(c, f)
              /\ (\A i \in 1..Len(c.messages) :
                      c.messages[i].role = "user" => detect_negation(c.messages[i].content) = None)
                    => /\ vector \subseteq vector'
                       /\ \A i \in 1..Len(c.trace) : c.trace[i].op # "vector_delete" ]_vars

\* An add call for a correction has deleted a fact stored by an earlier call
\* during its pre-cleanup, and the fact is gone from the store.
C13_Witness ==
    \E k \in 1..Len(adds) :
        /\ CleanupPositions(adds[k].messages) # {}
        /\ \E i \in 1..Len(adds[k].trace) :
              /\ adds[k].trace[i].op = "vector_delete" /\ adds[k].trace[i].ok
              /\ adds[k].trace[i].target < k
              /\ \A f \in vector : f.id # adds[k].trace[i].target

\* C14 as stated: in a call of add made while a last user message is
\* remembered, the keywords of the pre-cleanup for a correction that has no
\* earlier user message in its batch include the keywords extracted from the
\* remembered message.
C14_CrossCallContextCarry ==
    [][ (AddIsCalled /\ NewCall.initialized /\ manager._last_user_message # None) =>
          \A i \in 1..Len(NewCall.messages) :
              (/\ NewCall.messages[i].role = "user"
               /\ detect_negation(NewCall.messages[i].content) # None
               /\ PrevUserContent(NewCall.messages, i) = None) =>
                  extract_topic_keywords(manager._last_user_message)
                      \subseteq CleanupKeywords(NewCall.messages, i) ]_vars

(***************************************************************************)
(* Properties of the context enrichment                                     *)
(***************************************************************************)

\* The positions of the batch of the call at which the enrichment rewrote the
\* message it sent to the vector store.
Rewritten(c) ==
    { i \in 1..Len(c.enhanced) : c.enhanced[i].content # c.messages[i].content }

\* C15 as stated: where the enrichment has rewritten a message of the batch,
\* the text the batch sent to the vector store carries for the message (the
\* rewritten one) is also the text of its line in the episode body sent to the
\* graph store.
C15_RewrittenSentDownstream ==
    \A k \in 1..Len(adds) :
        \A i \in Rewritten(adds[k]) :
            adds[k].episode_body # << >> =>
                adds[k].episode_body[i]
                    = << Capitalize(adds[k].enhanced[i].role) >> \o adds[k].enhanced[i].content

(***************************************************************************)
(* One valid edge per subject and topic                                     *)
(***************************************************************************)

\* The text is about the user's employment.
AboutEmployment(text) ==
    \E keyword \in Range(WORK_KEYWORDS) : InText(<< keyword >>, LowerText(text))

\* Every sub-step of the call on a store completed.
NoStepFailed(c) == \A i \in 1..Len(c.trace) : c.trace[i].ok

\* C20 as stated: once an add call in which the user states an employer has
\* returned, every sub-step having completed, an edge about the employment of
\* the same user that was created more than 10 seconds before the call and was
\* in the result set of its resolver is invalid: the edge of the call is the
\* only valid one of its subject and topic.
C20_SingleValidEdgePerTopic ==
    \A k \in 1..Len(adds) :
        (/\ ResolverRan(adds[k])
         /\ NoStepFailed(adds[k])
         /\ \E i \in 1..Len(adds[k].messages) :
               /\ adds[k].messages[i].role = "user"
               /\ AboutEmployment(adds[k].messages[i].content)) =>
            \A e \in graph :
                (/\ e.user_id = adds[k].user_id
                 /\ AboutEmployment(e.fact)
                 /\ e.created_at + GraceSeconds < adds[k].reference_time
                 /\ \E r \in RelatedFacts(adds[k]) : r.uuid = e.uuid) =>
                    e.invalid_at # None

(***************************************************************************)
(* Logical deletion of edges                                                *)
(***************************************************************************)

\* C19: the invalid_at of an edge, once set, is not earlier than its
\* created_at; and no step removes an edge from the graph store or changes its
\* fact or its created_at: an invalidation sets invalid_at and nothing else.
C19_LogicalDeletionOnly ==
    /\ [](\A e \in graph : e.invalid_at # None => e.invalid_at[1] >= e.created_at)
    /\ [][ \A e \in graph :
              \E f \in graph' :
                  /\ f.uuid = e.uuid
                  /\ f.fact = e.fact
                  /\ f.created_at = e.created_at ]_vars

\* An edge has been invalidated and is still in the graph store.
C19_Witness ==
    \E e \in graph :
        /\ e.invalid_at # None
        /\ e.writers # << >>
        /\ e.invalid_at[1] > e.created_at

(***************************************************************************)
(* Properties of close                                                      *)
(***************************************************************************)

\* C16 as stated: close reaches the graph store only if the manager holds
\* one, and, however often close is called, the graph store's connection is
\* closed at most once: a second close does nothing more to it.
C16_CloseIdempotent ==
    /\ ~ manager.graphiti => closes.graphiti = 0
    /\ closes.graphiti <= 1

(***************************************************************************)
(* Properties of the turn                                                   *)
(***************************************************************************)

\* C17 as stated: in both paths the response of a turn is delivered without
\* waiting for add: whenever a turn is waiting for its call of add to
\* complete, its response has already been delivered to the caller.
C17_WritesNeverBlockResponse ==
    turn.pc = "saving" /\ adds[turn.awaiting].pc \notin { "returned", "raised" }
        => turn.delivered

\* C18 as stated: under fairness of the program's own steps, a turn that has
\* arrived eventually has its prompt built and the model invoked, whether or
\* not the memory search ever answers.
C18_SearchNeverBlocksTurn ==
    (turn.pc \in { "timezone", "timezone_wait", "context", "context_wait" })
        ~> (turn.pc = "agent")

(***************************************************************************)
(* Properties of detect_negation                                            *)
(***************************************************************************)

\* The patterns that match the lower-cased message.
MatchingPatterns(message_lower) ==
    { i \in 1..Len(NEGATION_PATTERNS) :
        PatternSearch(NEGATION_PATTERNS[i], message_lower).matched }

\* C21: detect_negation returns None exactly when no pattern matches the
\* message; otherwise it returns what the earliest matching pattern of the
\* list yields (its captured group, or the whole lower-cased message if it
\* has no group), whatever the later patterns match.
C21_FirstMatchWins ==
    probe.pc = "returned" /\ probe.op = "detect_negation" =>
        LET message_lower == LowerText(probe.message)
            matching == MatchingPatterns(message_lower)
        IN  /\ probe.result = None <=> matching = {}
            /\ matching # {} =>
                   probe.result = PatternResult(Min(matching), message_lower)

\* A message that two patterns match with different results has been
\* answered with the result of the earlier one.
C21_Witness ==
    /\ probe.pc = "returned"
    /\ probe.op = "detect_negation"
    /\ LET message_lower == LowerText(probe.message)
           matching == MatchingPatterns(message_lower)
       IN  \E i, j \in matching :
              /\ i = Min(matching)
              /\ i < j
              /\ PatternResult(i, message_lower) # PatternResult(j, message_lower)
              /\ probe.result = PatternResult(i, message_lower)

(***************************************************************************)
(* Properties of the resolver under sequential calls of add                 *)
(***************************************************************************)

\* C22: under calls of add made one after the other, an edge that the
\* resolver's query returned with invalid_at set is not handed to
\* _invalidate_edge by that call; an edge is written at most once; and the
\* invalid_at of an edge, once set, keeps its value in every later step.
C22_InvalidatedEdgesSkipped ==
    /\ [](\A k \in 1..Len(adds) : \A edge \in RelatedFacts(adds[k]) :
             edge.invalid_at # None => ~ Attempted(adds[k], edge))
    /\ [](\A e \in graph : Len(e.writers) <= 1)
    /\ [][ \A e \in graph : e.invalid_at # None =>
               \E f \in graph' : f.uuid = e.uuid /\ f.invalid_at = e.invalid_at ]_vars

\* The resolver of a later call has gone through a result set that holds an
\* edge invalidated by an earlier call, old enough and matching a keyword:
\* the edge still carries the earlier instant.
C22_Witness ==
    \E k \in 1..Len(adds) :
        /\ ResolverRan(adds[k])
        /\ \E edge \in RelatedFacts(adds[k]) :
              /\ edge.invalid_at # None
              /\ ShouldInvalidateAgain(edge, ResolverKeywords(adds[k]),
                                       adds[k].resolver_reference_time)
              /\ edge.invalid_at # Some(adds[k].resolver_reference_time)
              /\ \E e \in graph : e.uuid = edge.uuid /\ e.invalid_at = edge.invalid_at

\* C23 as stated: when a call of add that passed the guard returns, its batch
\* holding a user message, the remembered last user message is the content
\* of the last user message of the batch, whether or not a sub-step of the
\* call failed.
C23_LastUserMessageRemembered ==
    \A k \in 1..Len(adds) :
        LET contents == UserContents(adds[k].messages)
        IN  /\ adds[k].pc = "returned"
            /\ adds[k].initialized
            /\ contents # << >>
            => manager._last_user_message = contents[Len(contents)]

(***************************************************************************)
(* Properties of combined_context                                           *)
(***************************************************************************)

\* One line "- <text>" per vector result, then one line "- <fact>" per edge
\* of the graph results whose invalid_at is None, in the order of the results.
FactLines(vector_results, graph_results) ==
    LET valid == ValidEdges(graph_results)
    IN  [i \in 1..Len(vector_results) |-> << "-" >> \o vector_results[i].memory]
            \o [i \in 1..Len(valid) |-> << "-" >> \o valid[i].fact]

\* C24 as stated: when search returns, combined_context is exactly the lines
\* of the vector results followed by the lines of the valid edges, and holds
\* no other text.
C24_ContextIsFactLinesOnly ==
    SearchAnswered =>
        search.results.combined_context
            = FactLines(search.results.vector_results, search.results.graph_results)

\* C24, amended: when search returns, combined_context is the empty text if
\* there is no vector result and no valid edge; otherwise it is a line break
\* and the header "[Previous Context]:", followed by exactly the lines of the
\* vector results and then those of the valid edges: nothing else, and no
\* vector result or valid edge without its line.
C24_ContextIsHeaderThenFactLines ==
    SearchAnswered =>
        LET lines == FactLines(search.results.vector_results,
                               search.results.graph_results)
        IN  search.results.combined_context
                = IF lines = << >> THEN << >> ELSE ContextHeader \o lines

\* search has returned a vector result, a valid edge and an invalid edge.
C24_Witness ==
    /\ SearchAnswered
    /\ search.results.vector_results # << >>
    /\ \E i, j \in 1..Len(search.results.graph_results) :
          /\ search.results.graph_results[i].invalid_at = None
          /\ search.results.graph_results[j].invalid_at # None
    /\ Len(search.results.combined_context) > 2

(***************************************************************************)
(* Properties of the order of the steps of add                              *)
(***************************************************************************)

\* The place of a sub-step in the sequence of add: the pre-cleanup (query
\* and deletes), the vector add, the graph episode, the resolver (query and
\* edge invalidations).
StepRank(op) ==
    CASE op \in { "vector_search", "vector_delete" } -> 1
      [] op = "vector_add" -> 2
      [] op = "add_episode" -> 3
      [] op \in { "resolver_search", "invalidate" } -> 4

\* The sub-steps of the call were made in the order of the sequence.
InOrder(c) ==
    \A i, j \in 1..Len(c.trace) :
        i < j => StepRank(c.trace[i].op) <= StepRank(c.trace[j].op)

\* The failures that add logs and passes over: one delete of the
\* pre-cleanup, one edge invalidation.
PassedOver(step) == step.op \in { "vector_delete", "invalidate" }

\* C25 as stated: the sub-steps of every call of add are made in the order
\* of the sequence, and none is made after one that failed.
C25_StepsFormPrefix ==
    \A k \in 1..Len(adds) :
        /\ InOrder(adds[k])
        /\ \A i \in 1..Len(adds[k].trace) :
              ~ adds[k].trace[i].ok => i = Len(adds[k].trace)

\* C25, amended: the sub-steps of every call of add are made in the order of
\* the sequence; none is made after a failed pre-cleanup query, vector add,
\* graph episode or resolver query (after a failed vector add there is no
\* episode and no invalidation), while a failed delete or a failed edge
\* invalidation is passed over; and the remembered last user message changes
\* only when a call returns none of whose sub-steps failed, those passed
\* over apart.
C25_StepsInOrderAbortOnFailure ==
    /\ [](\A k \in 1..Len(adds) :
             /\ InOrder(adds[k])
             /\ \A i \in 1..Len(adds[k].trace) :
                   ~ adds[k].trace[i].ok /\ ~ PassedOver(adds[k].trace[i])
                       => i = Len(adds[k].trace))
    /\ [][ manager'._last_user_message # manager._last_user_message =>
               \E k \in 1..Len(adds) :
                  /\ adds[k].pc # "returned"
                  /\ adds'[k].pc = "returned"
                  /\ StepDone(adds'[k].trace, "add_episode")
                  /\ \A i \in 1..Len(adds'[k].trace) :
                        adds'[k].trace[i].ok \/ PassedOver(adds'[k].trace[i]) ]_vars

\* A call has returned in which a delete of the pre-cleanup failed and the
\* vector add, the episode and the rest were made all the same.
C25_Witness ==
    \E k \in 1..Len(adds) :
        /\ adds[k].pc = "returned"
        /\ StepFailed(adds[k].trace, "vector_delete")
        /\ StepDone(adds[k].trace, "vector_add")
        /\ StepDone(adds[k].trace, "add_episode")
        /\ manager._last_user_message = adds[k].messages[1].content

(***************************************************************************)
(* Properties of overlapping calls of add                                   *)
(***************************************************************************)

\* C26 as stated: however the calls of add overlap, the invalid_at of an
\* edge is written at most once, by at most one call.
C26_EdgeInvalidatedOnce ==
    \A e \in graph : Len(e.writers) <= 1

\* The edges of the result set of call k's resolver query that have the uuid.
SnapshotOf(k, uuid) ==
    { adds[k].related_facts[j] : j \in { i \in 1..Len(adds[k].related_facts) :
                                          adds[k].related_facts[i].uuid = uuid } }

\* C26, amended: a call of add writes the invalid_at of an edge at most once,
\* and only if the edge had no invalid_at when the call's resolver query was
\* answered.  An edge is written by two calls only when the query of the
\* second was answered before the write of the first, i.e. when the two
\* corrections overlapped.
C26_EdgeInvalidatedOncePerSnapshot ==
    /\ [](\A e \in graph : \A i, j \in 1..Len(e.writers) :
              i # j => e.writers[i] # e.writers[j])
    /\ [][ \A e \in graph, f \in graph' :
              f.uuid = e.uuid /\ f.writers # e.writers =>
                  /\ Len(f.writers) = Len(e.writers) + 1
                  /\ \A r \in SnapshotOf(f.writers[Len(f.writers)], e.uuid) :
                         r.invalid_at = None ]_vars

\* Two overlapping calls have written the invalid_at of the same edge.
C26_Witness ==
    \E e \in graph : Len(e.writers) = 2

(***************************************************************************)
(* Properties of the turns of the orchestrator, continued                   *)
(***************************************************************************)

\* C27 as stated: read-your-writes across turns.  On an initialized manager
\* a memory search is started only when the add of every earlier turn has
\* completed: no save is a task still to be started and no add is under way.
C27_SearchAfterEarlierAdds ==
    [][ /\ manager._initialized
        /\ search.pc = "idle"
        /\ search'.pc # "idle"
        => /\ turn.tasks = << >>
           /\ \A k \in 1..Len(adds) : adds[k].pc = "done" ]_vars

\* C27, amended: read-your-writes holds in the blocking path only.  A turn
\* of process_message ends only when its add has returned or raised, and no
\* memory search is started while a turn awaits its add; the save of a turn
\* of process_message_stream is a task that the next turn does not wait for.
C27_SearchAfterAwaitedAdd ==
    /\ [](turn.pc = "saving" => search.pc = "idle")
    /\ [][ turn.pc = "saving" /\ turn'.pc # "saving" =>
              /\ adds[turn.awaiting].pc \in { "returned", "raised" }
              /\ turn.awaiting \in 1..Len(adds') => adds'[turn.awaiting].pc = "done"
              /\ turn'.pc = "idle" ]_vars

\* The search of a turn of process_message is under way after the add of an
\* earlier turn has run to its end, and no save is left.
C27_Witness ==
    /\ turn.path = "message"
    /\ search.pc # "idle"
    /\ manager._last_user_message # None
    /\ graph # {}
    /\ turn.tasks = << >>
    /\ Len(adds) >= 1
    /\ \A k \in 1..Len(adds) : adds[k].pc = "done"

\* C28 as stated: whatever the entry point, no search and no add is called on
\* a manager whose initialize has not completed successfully.
C28_MemoryCalledAfterInitialize ==
    /\ search.pc # "idle" => search.initialized
    /\ \A k \in 1..Len(adds) : adds[k].initialized

(***************************************************************************)
(* Properties of the results of add                                         *)
(***************************************************************************)

\* The edges whose invalid_at call k has set.
InvalidatedBy(k) == { e \in graph : \E i \in 1..Len(e.writers) : e.writers[i] = k }

\* The user messages of the batch in which a correction is detected.
Corrections(messages) ==
    { i \in 1..Len(messages) :
        messages[i].role = "user" /\ detect_negation(messages[i].content) # None }

\* C29 as stated: when a call of add in which no step failed returns, the
\* invalidated count of its results is the number of edges whose invalid_at
\* the call has set, and it is absent only if no correction was detected.
C29_InvalidatedCountIsTotal ==
    \A k \in 1..Len(adds) :
        (adds[k].pc = "returned" /\ \A i \in 1..Len(adds[k].trace) : adds[k].trace[i].ok) =>
            IF Corrections(adds[k].messages) = {}
            THEN adds[k].results.invalidated_facts = None
            ELSE adds[k].results.invalidated_facts = Some(Cardinality(InvalidatedBy(k)))

(***************************************************************************)
(* Properties of the age of an edge                                         *)
(***************************************************************************)

\* C30 as stated: the age that is compared with the grace window is the time
\* elapsed between the creation of the edge and the reading of
\* reference_time, whatever offset created_at carries.
C30_AgeIsElapsedTime ==
    (probe.pc = "returned" /\ probe.op = "time_diff") =>
        probe.result = probe.reference - probe.created

=============================================================================
